---- MODULE Spec2Model ----
(***************************************************************************)
(* Release automation toolkit: conventional-commit analysis, version bump  *)
(* and the release orchestration around them.                              *)
(*                                                                         *)
(* Text is modelled as a sequence of one-character strings, so that the    *)
(* regular expressions, String.split, Number() and template literals of    *)
(* the source are computed character by character.                         *)
(***************************************************************************)
EXTENDS Integers, Sequences, FiniteSets, TLC

VARIABLES
    \* --- version calculator (bumpVersion) ---
    ver,        \* the current version string (package.json "version")
    tagIn,      \* the prerelease argument: None or Some(tag)
    out,        \* the last bumpVersion call: its arguments and its outcome
    calls,      \* number of bumpVersion calls made so far
    \* --- commit classifier (analyzeCommits of utils/commit-parser) ---
    commitsIn,  \* the commits argument: a list of CommitInfo {hash, message}
    cfgIn,      \* the config and breakingKeywords arguments
    aOut,       \* the value analyzeCommits returned, once it has been called
    \* --- release (ReleaseOrchestrator and the release steps) ---
    world,      \* the world: files, git repository, npm registry, GitHub, op log
    world0,     \* the world as it was when the current call started
    envIn,      \* branch, NPM_TOKEN, GITHUB_TOKEN, git remote, GITHUB_REPOSITORY
    opts,       \* the options of the current call: dryRun and the skip flags
    pc,         \* the step release() is at, or the step that was called
    ar,         \* None, or Some(outcome of analyzeCommitsForRelease / analysis passed)
    outcome,    \* how the current call ended: resolved or rejected with a message
    runs,       \* number of calls started so far
    \* --- text functions (parseCommit, utils/formatting) ---
    textIn,     \* the arguments of the calls
    textOut     \* what the calls returned, once they have been made

versionVars == <<ver, tagIn, out, calls>>
analyzeVars == <<commitsIn, cfgIn, aOut>>
releaseVars == <<world, world0, envIn, opts, pc, ar, outcome, runs>>
textVars == <<textIn, textOut>>
vars == <<versionVars, analyzeVars, releaseVars, textVars>>

-----------------------------------------------------------------------------
(* Bounds of the model *)

\* version components 0..MaxNum are enumerated (plus the carry cases below)
MaxNum == 2
\* number of bumpVersion calls in one behaviour
MaxCalls == 3
\* length of the commit list handed to analyzeCommits
MaxCommits == 3
\* number of commits since the last tag when a release starts
MaxHistory == 2
\* number of release() runs, and of direct step calls, in one behaviour
MaxRuns == 1
MaxStepCalls == 1

-----------------------------------------------------------------------------
(* Option values: null/undefined is None, a value x is Some(x) *)

None == <<>>
Some(x) == <<x>>
IsSome(o) == Len(o) = 1
Get(o) == o[1]

-----------------------------------------------------------------------------
(* Characters and strings *)

Digit == {"0", "1", "2", "3", "4", "5", "6", "7", "8", "9"}
WhiteSpace == {" ", "\t", "\n"}

DigitVal(c) ==
    CASE c = "0" -> 0 [] c = "1" -> 1 [] c = "2" -> 2 [] c = "3" -> 3
      [] c = "4" -> 4 [] c = "5" -> 5 [] c = "6" -> 6 [] c = "7" -> 7
      [] c = "8" -> 8 [] c = "9" -> 9
      [] c \in {"a", "A"} -> 10 [] c \in {"b", "B"} -> 11
      [] c \in {"c", "C"} -> 12 [] c \in {"d", "D"} -> 13
      [] c \in {"e", "E"} -> 14 [] c \in {"f", "F"} -> 15

DigitChar(d) ==
    CASE d = 0 -> "0" [] d = 1 -> "1" [] d = 2 -> "2" [] d = 3 -> "3"
      [] d = 4 -> "4" [] d = 5 -> "5" [] d = 6 -> "6" [] d = 7 -> "7"
      [] d = 8 -> "8" [] d = 9 -> "9"

HexDigit == Digit \cup {"a", "b", "c", "d", "e", "f", "A", "B", "C", "D", "E", "F"}

IsDigits(s) == Len(s) > 0 /\ \A i \in 1..Len(s) : s[i] \in Digit
IsHexDigits(s) == Len(s) > 0 /\ \A i \in 1..Len(s) : s[i] \in HexDigit

Slice(s, i, j) == IF i > j THEN <<>> ELSE SubSeq(s, i, j)

RECURSIVE Pow(_, _)
Pow(b, e) == IF e = 0 THEN 1 ELSE b * Pow(b, e - 1)

\* value of a digit string in the given radix
RECURSIVE RadixVal(_, _)
RadixVal(s, radix) ==
    IF s = <<>> THEN 0
    ELSE RadixVal(Slice(s, 1, Len(s) - 1), radix) * radix + DigitVal(s[Len(s)])

\* decimal rendering of a non-negative integer
RECURSIVE NatToStr(_)
NatToStr(n) ==
    IF n < 10 THEN <<DigitChar(n)>>
    ELSE NatToStr(n \div 10) \o <<DigitChar(n % 10)>>

\* `${n}` for an integer n
ToStr(n) == IF n < 0 THEN <<"-">> \o NatToStr(0 - n) ELSE NatToStr(n)

\* String.prototype.trim
RECURSIVE TrimLeft(_)
TrimLeft(s) ==
    IF s # <<>> /\ s[1] \in WhiteSpace THEN TrimLeft(Tail(s)) ELSE s

RECURSIVE TrimRight(_)
TrimRight(s) ==
    IF s # <<>> /\ s[Len(s)] \in WhiteSpace
    THEN TrimRight(Slice(s, 1, Len(s) - 1)) ELSE s

trim(s) == TrimRight(TrimLeft(s))

\* positions of the character c in s
Positions(s, c) == {i \in 1..Len(s) : s[i] = c}

Min(S) == CHOOSE x \in S : \A y \in S : x <= y
Max(S) == CHOOSE x \in S : \A y \in S : x >= y

\* String.prototype.split with a one-character separator
RECURSIVE split(_, _)
split(s, sep) ==
    IF Positions(s, sep) = {} THEN <<s>>
    ELSE LET i == Min(Positions(s, sep))
         IN  <<Slice(s, 1, i - 1)>> \o split(Slice(s, i + 1, Len(s)), sep)

StartsWith(s, p) == Len(s) >= Len(p) /\ Slice(s, 1, Len(p)) = p
EndsWith(s, p) == Len(s) >= Len(p) /\ Slice(s, Len(s) - Len(p) + 1, Len(s)) = p

\* String.prototype.includes
Includes(s, p) ==
    \E i \in 1..(Len(s) - Len(p) + 1) : Slice(s, i, i + Len(p) - 1) = p

-----------------------------------------------------------------------------
(* Number(string): the result is NaN or an integer.  The inputs of the     *)
(* model carry no fraction and no negative exponent.                       *)

NaN == [nan |-> TRUE, val |-> 0]
Num(n) == [nan |-> FALSE, val |-> n]

Number(s) ==
    LET t == trim(s)
        signed == t # <<>> /\ t[1] \in {"-", "+"}
        sgn == IF t # <<>> /\ t[1] = "-" THEN 0 - 1 ELSE 1
        u == IF signed THEN Tail(t) ELSE t
        es == Positions(u, "e") \cup Positions(u, "E")
    IN  IF t = <<>> THEN Num(0)
        ELSE IF Len(t) > 2 /\ t[1] = "0" /\ t[2] \in {"x", "X"}
                /\ IsHexDigits(Slice(t, 3, Len(t)))
        THEN Num(RadixVal(Slice(t, 3, Len(t)), 16))
        ELSE IF IsDigits(u) THEN Num(sgn * RadixVal(u, 10))
        ELSE IF es # {}
        THEN LET p == Min(es)
                 mant == Slice(u, 1, p - 1)
                 ex == Slice(u, p + 1, Len(u))
                 exu == IF ex # <<>> /\ ex[1] = "+" THEN Tail(ex) ELSE ex
             IN  IF IsDigits(mant) /\ IsDigits(exu)
                 THEN Num(sgn * RadixVal(mant, 10) * Pow(10, RadixVal(exu, 10)))
                 ELSE NaN
        ELSE NaN

-----------------------------------------------------------------------------
(* bumpVersion *)

Ok(v) == [ok |-> TRUE, value |-> v, error |-> ""]
Throw(msg) == [ok |-> FALSE, value |-> <<>>, error |-> msg]

\* currentVersion.match(/-(.+)\.(\d+)$/): None, or Some(<<group 1, group 2>>)
\* (\d+)$ is the text after the last dot; the match starts at the leftmost
\* dash that leaves at least one character for (.+)
prereleaseMatch(s) ==
    LET dots == Positions(s, ".")
        j == Max(dots)
        dashes == {i \in Positions(s, "-") : i + 2 <= j}
        i == Min(dashes)
    IN  IF dots = {} THEN None
        ELSE IF ~IsDigits(Slice(s, j + 1, Len(s))) \/ dashes = {} THEN None
        ELSE IF "\n" \in {s[k] : k \in (i + 1)..(j - 1)} THEN None
        ELSE Some(<<Slice(s, i + 1, j - 1), Slice(s, j + 1, Len(s))>>)

\* a bug variant: the minor and major bumps keep the components to their right
bumpVersionNoReset(currentVersion, bump, prerelease) ==
    LET versionParts == [i \in 1..Len(split(currentVersion, ".")) |->
                            Number(split(currentVersion, ".")[i])]
        major == versionParts[1].val
        minor == versionParts[2].val
        patch == versionParts[3].val
        suffix == IF IsSome(prerelease) /\ Get(prerelease) # <<>>
                  THEN <<"-">> \o Get(prerelease) \o <<".", "0">> ELSE <<>>
    IN  IF Len(versionParts) # 3 \/ \E i \in 1..Len(versionParts) : versionParts[i].nan
        THEN Throw("Invalid version format")
        ELSE CASE bump = "major" ->
                    Ok(ToStr(major + 1) \o <<".">> \o ToStr(minor) \o <<".">> \o ToStr(patch) \o suffix)
               [] bump = "minor" ->
                    Ok(ToStr(major) \o <<".">> \o ToStr(minor + 1) \o <<".">> \o ToStr(patch) \o suffix)
               [] OTHER ->
                    Ok(ToStr(major) \o <<".">> \o ToStr(minor) \o <<".">> \o ToStr(patch + 1) \o suffix)

bumpVersion(currentVersion, bump, prerelease) ==
    LET versionParts == [i \in 1..Len(split(currentVersion, ".")) |->
                            Number(split(currentVersion, ".")[i])]
        major == versionParts[1].val
        minor == versionParts[2].val
        patch == versionParts[3].val
        \* if (prerelease): null and the empty string are both falsy
        pre == IF IsSome(prerelease) THEN Get(prerelease) ELSE <<>>
        m == prereleaseMatch(currentVersion)
        core ==
            CASE bump = "major" -> ToStr(major + 1) \o <<".", "0", ".", "0">>
              [] bump = "minor" ->
                    ToStr(major) \o <<".">> \o ToStr(minor + 1) \o <<".", "0">>
              [] OTHER ->
                    ToStr(major) \o <<".">> \o ToStr(minor) \o <<".">> \o ToStr(patch + 1)
    IN  IF Len(versionParts) # 3 \/ \E i \in 1..Len(versionParts) : versionParts[i].nan
        THEN Throw("Invalid version format")
        ELSE IF pre # <<>>
        THEN IF IsSome(m) /\ Get(m)[1] = pre
             THEN Ok(ToStr(major) \o <<".">> \o ToStr(minor) \o <<".">> \o ToStr(patch)
                     \o <<"-">> \o pre \o <<".">>
                     \o ToStr(Number(Get(m)[2]).val + 1))
             ELSE Ok(core \o <<"-">> \o pre \o <<".", "0">>)
        ELSE Ok(core)

-----------------------------------------------------------------------------
(* Inputs of the version calculator *)

BumpLevels == {"major", "minor", "patch"}

\* numbers used as version components and prerelease counters
Nums == (0..MaxNum) \cup {9, 10, 99}

\* components that are not plain non-negative decimal integers
OddComps ==
    { <<>>, <<"-", "1">>, <<" ", "1">>, <<"1", " ">>, <<"0", "x", "1", "0">>,
      <<"1", "e", "1">>, <<"a">>, <<"+", "1">>, <<"0", "1">> }

Core(x, y, z) == ToStr(x) \o <<".">> \o ToStr(y) \o <<".">> \o ToStr(z)
Join3(a, b, c) == a \o <<".">> \o b \o <<".">> \o c

beta == <<"b", "e", "t", "a">>
crumbsFix == <<"c", "r", "u", "m", "b", "s", "-", "f", "i", "x", "-", "a">>

Tags == {beta, crumbsFix}
TagInputs == {None, Some(<<>>)} \cup {Some(t) : t \in Tags}

Pre(v, t, n) == v \o <<"-">> \o t \o <<".">> \o ToStr(n)

PlainVersions == {Core(x, y, z) : x, y, z \in Nums}
PrereleaseVersions == {Pre(Core(x, y, z), t, n) : x, y, z \in 0..MaxNum, t \in Tags, n \in {0, 1, 9}}
OddVersions ==
    LET C == OddComps \cup {<<"1">>, <<"9">>}
    IN  {Join3(a, b, c) : a, b, c \in C}
        \cup {<<"1">>, <<"1", ".", "2">>, <<"1", ".", "2", ".", "3", ".", "4">>,
              <<"v", "1", ".", "2", ".", "3">>, <<>>,
              <<" ", "1", ".", "2", ".", "3", "\n">>}

VersionInputs == PlainVersions \cup PrereleaseVersions \cup OddVersions

NoCall ==
    [called |-> FALSE, current |-> <<>>, bump |-> "patch", prerelease |-> None,
     result |-> Throw("")]

VersionInit ==
    /\ ver \in VersionInputs
    /\ tagIn \in TagInputs
    /\ out = NoCall
    /\ calls = 0

\* a call bumpVersion(ver, b, tagIn)
BumpVersionCall ==
    /\ calls < MaxCalls
    /\ \E b \in BumpLevels :
          out' = [called |-> TRUE, current |-> ver, bump |-> b, prerelease |-> tagIn,
                  result |-> bumpVersion(ver, b, tagIn)]
    /\ calls' = calls + 1
    /\ UNCHANGED <<ver, tagIn, analyzeVars, releaseVars, textVars>>

\* the returned version becomes the current version (bumpPackageVersion writes
\* analysis.version to package.json, the next run reads it back)
AdoptVersion ==
    /\ out.called /\ out.result.ok
    /\ ver # out.result.value
    /\ ver' = out.result.value
    /\ UNCHANGED <<tagIn, out, calls, analyzeVars, releaseVars, textVars>>

VersionIdle == ver = <<>> /\ tagIn = None /\ out = NoCall /\ calls = 0

VersionNext == BumpVersionCall \/ AdoptVersion

-----------------------------------------------------------------------------
(* Text constants: commit types, sections, keywords, commit messages *)

tFeat == <<"f", "e", "a", "t">>
tFix == <<"f", "i", "x">>
tDocs == <<"d", "o", "c", "s">>
tStyle == <<"s", "t", "y", "l", "e">>
tRefactor == <<"r", "e", "f", "a", "c", "t", "o", "r">>
tPerf == <<"p", "e", "r", "f">>
tTest == <<"t", "e", "s", "t">>
tChore == <<"c", "h", "o", "r", "e">>
tBump == <<"b", "u", "m", "p">>
tDependabot == <<"d", "e", "p", "e", "n", "d", "a", "b", "o", "t">>
tRevert == <<"r", "e", "v", "e", "r", "t">>
tBreaking == <<"b", "r", "e", "a", "k", "i", "n", "g">>
tSecurity == <<"s", "e", "c", "u", "r", "i", "t", "y">>
tDeps == <<"d", "e", "p", "s">>
tConstructor == <<"c", "o", "n", "s", "t", "r", "u", "c", "t", "o", "r">>
tToString == <<"t", "o", "S", "t", "r", "i", "n", "g">>
scopeInternal == <<"i", "n", "t", "e", "r", "n", "a", "l">>
sFeatures == <<"F", "e", "a", "t", "u", "r", "e", "s">>
sBugFixes == <<"B", "u", "g", " ", "F", "i", "x", "e", "s">>
sDocumentation == <<"D", "o", "c", "u", "m", "e", "n", "t", "a", "t", "i", "o", "n">>
sStyles == <<"S", "t", "y", "l", "e", "s">>
sRefactors == <<"R", "e", "f", "a", "c", "t", "o", "r", "s">>
sPerformance == <<"P", "e", "r", "f", "o", "r", "m", "a", "n", "c", "e", " ", "I", "m", "p", "r", "o", "v", "e", "m", "e", "n", "t", "s">>
sTests == <<"T", "e", "s", "t", "s">>
sChores == <<"C", "h", "o", "r", "e", "s">>
sSecurity == <<"S", "e", "c", "u", "r", "i", "t", "y">>
BreakingChanges == <<"B", "r", "e", "a", "k", "i", "n", "g", " ", "C", "h", "a", "n", "g", "e", "s">>
scopeNpmDep == <<"n", "p", "m", "-", "d", "e", "p">>
tUnknown == <<"u", "n", "k", "n", "o", "w", "n">>
kwBreakingChange == <<"B", "R", "E", "A", "K", "I", "N", "G", " ", "C", "H", "A", "N", "G", "E">>
kwBreakingDashChange == <<"B", "R", "E", "A", "K", "I", "N", "G", "-", "C", "H", "A", "N", "G", "E">>
kwBreakingChanges == <<"B", "R", "E", "A", "K", "I", "N", "G", " ", "C", "H", "A", "N", "G", "E", "S">>
kwBreakingDashChanges == <<"B", "R", "E", "A", "K", "I", "N", "G", "-", "C", "H", "A", "N", "G", "E", "S">>
mFeat ==
    <<"f", "e", "a", "t", ":", " ", "a", "d", "d", " ", "x">>
mFix ==
    <<"f", "i", "x", ":", " ", "f", "i", "x", " ", "y">>
mFeatBang ==
    <<"f", "e", "a", "t", "!", ":", " ", "d", "r", "o", "p", " ", "z">>
mChoreDep ==
    <<"c", "h", "o", "r", "e", "(", "n", "p", "m", "-", "d", "e", "p", ")", ":", " ", "u", "p">>
mBumpHidden ==
    <<"b", "u", "m", "p", ":", " ", "d", "e", "p", "s">>
mUnknownType ==
    <<"w", "i", "p", ":", " ", "t", "r", "y">>
mFixPr ==
    <<"f", "i", "x", ":", " ", "f", "i", "x", " ", "y", " ", "(", "#", "4", "2", ")">>
mFixScope ==
    <<"f", "i", "x", "(", "u", "i", ")", ":", " ", "f", "i", "x", " ", "y">>
mFixBody ==
    <<"f", "i", "x", ":", " ", "f", "i", "x", " ", "y", "\n", "\n", "m", "o", "r", "e">>
mFeatBodyBreaking ==
    <<"f", "e", "a", "t", ":", " ", "d", "r", "o", "p", " ", "z", "\n", "\n", "B", "R", "E", "A", "K", "I", "N", "G", " ", "C", "H", "A", "N", "G", "E", ":", " ", "g", "o", "n", "e">>
mFixSubjectKeyword ==
    <<"f", "i", "x", ":", " ", "B", "R", "E", "A", "K", "I", "N", "G", " ", "C", "H", "A", "N", "G", "E", " ", "y">>
mBreakingType ==
    <<"b", "r", "e", "a", "k", "i", "n", "g", ":", " ", "d", "r", "o", "p", " ", "z">>
mConstructor ==
    <<"c", "o", "n", "s", "t", "r", "u", "c", "t", "o", "r", ":", " ", "t", "i", "d", "y">>
mFeatInternal ==
    <<"f", "e", "a", "t", "(", "i", "n", "t", "e", "r", "n", "a", "l", ")", ":", " ", "t", "u", "n", "e">>
mDeps ==
    <<"d", "e", "p", "s", ":", " ", "u", "p">>
mFixBodyLower ==
    <<"f", "i", "x", ":", " ", "f", "i", "x", " ", "y", "\n", "\n", "b", "r", "e", "a", "k", "i", "n", "g", " ", "c", "h", "a", "n", "g", "e", ":", " ", "x">>
mNoGrammar ==
    <<"u", "p", "d", "a", "t", "e", " ", "r", "e", "a", "d", "m", "e">>

Lower ==
    {"a", "b", "c", "d", "e", "f", "g", "h", "i", "j", "k", "l", "m",
     "n", "o", "p", "q", "r", "s", "t", "u", "v", "w", "x", "y", "z"}
Upper ==
    {"A", "B", "C", "D", "E", "F", "G", "H", "I", "J", "K", "L", "M",
     "N", "O", "P", "Q", "R", "S", "T", "U", "V", "W", "X", "Y", "Z"}
\* regex \w
WordChar == Lower \cup Upper \cup Digit \cup {"_"}
\* characters the regex dot does not match
LineTerminator == {"\n", "\r"}

-----------------------------------------------------------------------------
(* parseCommit (utils/commit-parser.ts) *)

\* length of the longest prefix of s made of characters of S
RECURSIVE PrefixLen(_, _)
PrefixLen(s, S) ==
    IF s # <<>> /\ s[1] \in S THEN 1 + PrefixLen(Tail(s), S) ELSE 0

\* length of the longest suffix of s made of characters of S
RECURSIVE SuffixLen(_, _)
SuffixLen(s, S) ==
    IF s # <<>> /\ s[Len(s)] \in S
    THEN 1 + SuffixLen(Slice(s, 1, Len(s) - 1), S) ELSE 0

\* message.match(/\(#(\d+)\)$/): None, or Some(the digits)
prMatch(message) ==
    LET k == Len(message)
        d == SuffixLen(Slice(message, 1, k - 1), Digit)
    IN  IF k >= 4 /\ message[k] = ")" /\ d >= 1 /\ k - d - 2 >= 1
           /\ message[k - d - 1] = "#" /\ message[k - d - 2] = "("
        THEN Some(Slice(message, k - d, k - 1))
        ELSE None

\* message.replace(/\s*\(#\d+\)$/, "")
stripPr(message) ==
    LET k == Len(message)
        d == SuffixLen(Slice(message, 1, k - 1), Digit)
    IN  TrimRight(Slice(message, 1, k - d - 3))

\* cleanMessage.match(/^(\w+)(?:\(([^)]+)\))?: (.+)$/):
\* None, or Some([type, scope, description]) with scope an option
conventionalMatch(s) ==
    LET n == PrefixLen(s, WordChar)
        rest == Slice(s, n + 1, Len(s))
        hasParen == rest # <<>> /\ rest[1] = "("
        close == IF Positions(rest, ")") = {} THEN 0 ELSE Min(Positions(rest, ")"))
        scopeOk == hasParen /\ close >= 3
        after == IF scopeOk THEN Slice(rest, close + 1, Len(rest)) ELSE rest
        desc == Slice(after, 3, Len(after))
    IN  IF /\ n >= 1
           /\ (hasParen => scopeOk)
           /\ StartsWith(after, <<":", " ">>)
           /\ Len(desc) >= 1
           /\ \A i \in 1..Len(desc) : desc[i] \notin LineTerminator
        THEN Some([type |-> Slice(s, 1, n),
                   scope |-> IF scopeOk THEN Some(Slice(rest, 2, close - 1)) ELSE None,
                   description |-> desc])
        ELSE None

parseCommit(message, hash) ==
    LET prNumber == prMatch(message)
        cleanMessage == IF IsSome(prNumber) THEN stripPr(message) ELSE message
        match == conventionalMatch(cleanMessage)
    IN  IF ~IsSome(match)
        THEN [type |-> tUnknown, scope |-> None, description |-> cleanMessage,
              breaking |-> FALSE, body |-> <<>>, hash |-> hash, prNumber |-> prNumber]
        ELSE [type |-> Get(match).type, scope |-> Get(match).scope,
              description |-> Get(match).description,
              breaking |-> FALSE, body |-> <<>>, hash |-> hash, prNumber |-> prNumber]

-----------------------------------------------------------------------------
(* Configuration *)

Rule(t, b, sec, hid) == [type |-> t, bump |-> b, section |-> sec, hidden |-> hid]

\* CONFIG of config.ts
CONFIG ==
    [types |->
        { Rule(tFeat, "minor", Some(sFeatures), FALSE),
          Rule(tFix, "patch", Some(sBugFixes), FALSE),
          Rule(tDocs, "patch", Some(sDocumentation), FALSE),
          Rule(tStyle, "patch", Some(sStyles), FALSE),
          Rule(tRefactor, "patch", Some(sRefactors), FALSE),
          Rule(tPerf, "patch", Some(sPerformance), FALSE),
          Rule(tTest, "patch", Some(sTests), FALSE),
          Rule(tChore, "patch", Some(sChores), FALSE),
          Rule(tBump, "patch", None, TRUE),
          Rule(tDependabot, "patch", None, TRUE),
          Rule(tRevert, "patch", None, TRUE) },
     hiddenScopes |-> { [type |-> tChore, scopes |-> {scopeNpmDep}] },
     breakingKeywords |->
        <<kwBreakingChange, kwBreakingDashChange, kwBreakingChanges, kwBreakingDashChanges>>]

\* the custom commit types of docs/configuration.md
CustomConfig ==
    [types |->
        { Rule(tFeat, "minor", Some(sFeatures), FALSE),
          Rule(tFix, "patch", Some(sBugFixes), FALSE),
          Rule(tBreaking, "major", Some(BreakingChanges), FALSE),
          Rule(tSecurity, "patch", Some(sSecurity), FALSE),
          Rule(tDeps, "patch", None, TRUE) },
     hiddenScopes |-> { [type |-> tFeat, scopes |-> {scopeInternal}] },
     breakingKeywords |-> CONFIG.breakingKeywords]

\* a configuration the CommitTypeConfig type admits: a hidden rule that
\* declares a major bump
HiddenMajorConfig ==
    [types |->
        { Rule(tFeat, "minor", Some(sFeatures), FALSE),
          Rule(tFix, "patch", Some(sBugFixes), FALSE),
          Rule(tDeps, "major", None, TRUE) },
     hiddenScopes |-> {},
     breakingKeywords |-> CONFIG.breakingKeywords]

\* members every object literal inherits from Object.prototype (among them)
ObjectPrototypeKeys == {tConstructor, tToString}

\* config.types[type]: the rule of the type, else the member the table
\* inherits under that name (its bump, section and hidden are undefined),
\* else None
typeConfigOf(config, type) ==
    IF \E r \in config.types : r.type = type
    THEN Some(CHOOSE r \in config.types : r.type = type)
    ELSE IF type \in ObjectPrototypeKeys
    THEN Some(Rule(type, "undefined", None, FALSE))
    ELSE None

\* config.hiddenScopes[type], as the set of scopes (empty when absent)
hiddenScopesOf(config, type) ==
    UNION {h.scopes : h \in {x \in config.hiddenScopes : x.type = type}}

-----------------------------------------------------------------------------
(* analyzeCommits (utils/commit-parser.ts) *)

\* changes: the insertion-ordered mapping section -> items
HasKey(m, k) == \E i \in 1..Len(m) : m[i].key = k

\* changes[section].push(item), creating the section when it is missing
pushChange(changes, section, item) ==
    IF HasKey(changes, section)
    THEN [i \in 1..Len(changes) |->
            IF changes[i].key = section
            THEN [changes[i] EXCEPT !.items = Append(@, item)]
            ELSE changes[i]]
    ELSE Append(changes, [key |-> section, items |-> <<item>>])

\* commitMeta[key] = {hash, prNumber}
setMeta(meta, k, hash, prNumber) ==
    IF HasKey(meta, k)
    THEN [i \in 1..Len(meta) |->
            IF meta[i].key = k
            THEN [key |-> k, hash |-> hash, prNumber |-> prNumber]
            ELSE meta[i]]
    ELSE Append(meta, [key |-> k, hash |-> hash, prNumber |-> prNumber])

\* breakingKeywords.some((keyword) => commitInfo.message.includes(keyword))
isBreaking(message, breakingKeywords) ==
    \E i \in 1..Len(breakingKeywords) : Includes(message, breakingKeywords[i])

\* if (typeConfig.bump === "minor" && bump !== "major") bump = "minor"
updateBump(bump, rule) ==
    IF rule.bump = "minor" /\ bump # "major" THEN "minor" ELSE bump

\* typeConfig.hidden, or the scope is listed in config.hiddenScopes[type]
isHidden(parsed, rule, hiddenScopes) ==
    \/ rule.hidden
    \/ /\ IsSome(parsed.scope) /\ Get(parsed.scope) # <<>>
       /\ Get(parsed.scope) \in hiddenScopes

\* isBreaking ? "Breaking Changes" : typeConfig.section || parsed.type
sectionOf(parsed, brk, rule) ==
    IF brk THEN BreakingChanges
    ELSE IF IsSome(rule.section) /\ Get(rule.section) # <<>>
    THEN Get(rule.section) ELSE parsed.type

\* parsed.scope ? `${parsed.description} (${parsed.scope})` : parsed.description
changeDescriptionOf(parsed) ==
    IF IsSome(parsed.scope) /\ Get(parsed.scope) # <<>>
    THEN parsed.description \o <<" ", "(">> \o Get(parsed.scope) \o <<")">>
    ELSE parsed.description

\* the TypeError the loop body raises ("" when it raises none):
\* config.hiddenScopes[type] and changes[section] are inherited members when
\* the name is one of Object.prototype and the object has no such key of its
\* own, and those members have no includes and no push
typeErrorOf(acc, parsed, brk, rule, config) ==
    IF rule.hidden THEN ""
    ELSE IF /\ parsed.type \in ObjectPrototypeKeys
            /\ ~\E h \in config.hiddenScopes : h.type = parsed.type
            /\ IsSome(parsed.scope) /\ Get(parsed.scope) # <<>>
    THEN "hiddenScopes.includes is not a function"
    ELSE IF isHidden(parsed, rule, hiddenScopesOf(config, parsed.type)) THEN ""
    ELSE IF /\ sectionOf(parsed, brk, rule) \in ObjectPrototypeKeys
            /\ ~HasKey(acc.changes, sectionOf(parsed, brk, rule))
    THEN "changes[section].push is not a function"
    ELSE ""

\* the loop body once the commit's type has a rule
applyRule(acc, parsed, brk, rule, hiddenScopes) ==
    IF isHidden(parsed, rule, hiddenScopes)
    THEN [acc EXCEPT !.bump = updateBump(@, rule)]
    ELSE [bump |-> updateBump(acc.bump, rule),
          hasVisibleChanges |-> TRUE,
          error |-> acc.error,
          changes |-> pushChange(acc.changes, sectionOf(parsed, brk, rule),
                                 changeDescriptionOf(parsed)),
          commitMeta |-> setMeta(acc.commitMeta, changeDescriptionOf(parsed),
                                 parsed.hash, parsed.prNumber)]

\* the loop body once the commit is parsed and its breaking flag is known
applyCommit(acc, parsed, brk, config) ==
    IF ~IsSome(typeConfigOf(config, parsed.type))
    THEN [acc EXCEPT !.bump = IF brk THEN "major" ELSE @]
    ELSE IF typeErrorOf(acc, parsed, brk, Get(typeConfigOf(config, parsed.type)),
                        config) # ""
    THEN [acc EXCEPT !.bump = IF brk THEN "major" ELSE @,
                     !.error = typeErrorOf(acc, parsed, brk,
                                   Get(typeConfigOf(config, parsed.type)), config)]
    ELSE applyRule([acc EXCEPT !.bump = IF brk THEN "major" ELSE @], parsed, brk,
                   Get(typeConfigOf(config, parsed.type)),
                   hiddenScopesOf(config, parsed.type))

\* one iteration of the for loop over commits
analyzeCommit(acc, commitInfo, config, breakingKeywords) ==
    applyCommit(acc, parseCommit(commitInfo.message, commitInfo.hash),
                isBreaking(commitInfo.message, breakingKeywords), config)

RECURSIVE analyzeLoop(_, _, _, _)
analyzeLoop(acc, commits, config, breakingKeywords) ==
    IF commits = <<>> \/ acc.error # "" THEN acc
    ELSE analyzeLoop(analyzeCommit(acc, Head(commits), config, breakingKeywords),
                     Tail(commits), config, breakingKeywords)

\* the returned object; error is the message of the TypeError that ended the
\* call instead ("" when the call returned)
analysisOf(acc) ==
    [error |-> acc.error,
     bump |-> acc.bump,
     changes |-> acc.changes,
     hasOnlyHiddenChanges |-> ~acc.hasVisibleChanges,
     commitMeta |-> acc.commitMeta]

analyzeCommits(commits, config, breakingKeywords) ==
    analysisOf(analyzeLoop([bump |-> "patch", hasVisibleChanges |-> FALSE,
                            error |-> "", changes |-> <<>>, commitMeta |-> <<>>],
                           commits, config, breakingKeywords))

-----------------------------------------------------------------------------
(* Inputs of the commit classifier *)

Messages ==
    { mFeat, mFix, mFeatBang, mChoreDep, mBumpHidden, mUnknownType, mFixPr,
      mFixScope, mFixBody, mFeatBodyBreaking, mFixSubjectKeyword, mBreakingType,
      mNoGrammar, mConstructor, mFeatInternal, mDeps, mFixBodyLower }

\* the hash of the i-th commit of a list
hashOf(i) == <<"a", "b", "c", "d", "e", "f", "0">> \o ToStr(i)

\* the commit lists of at most max commits
CommitLists(max) ==
    UNION { { [i \in 1..n |-> [hash |-> hashOf(i), message |-> f[i]]] :
                f \in [1..n -> Messages] } : n \in 0..max }

\* config and breakingKeywords arguments; breakingKeywords defaults to []
ConfigInputs ==
    { [config |-> CONFIG, breakingKeywords |-> CONFIG.breakingKeywords],
      [config |-> CustomConfig, breakingKeywords |-> CustomConfig.breakingKeywords],
      [config |-> CONFIG, breakingKeywords |-> <<>>],
      [config |-> HiddenMajorConfig,
       breakingKeywords |-> HiddenMajorConfig.breakingKeywords] }

NoAnalysis ==
    [done |-> FALSE, error |-> "", bump |-> "patch", changes |-> <<>>,
     hasOnlyHiddenChanges |-> FALSE, commitMeta |-> <<>>]

AnalyzeIdle ==
    /\ commitsIn = <<>>
    /\ cfgIn = [config |-> CONFIG, breakingKeywords |-> <<>>]
    /\ aOut = NoAnalysis

AnalyzeInit ==
    /\ commitsIn \in CommitLists(MaxCommits)
    /\ cfgIn \in ConfigInputs
    /\ aOut = NoAnalysis

\* a call analyzeCommits(commitsIn, cfgIn.config, cfgIn.breakingKeywords)
AnalyzeCommitsCall ==
    /\ ~aOut.done
    /\ aOut' = [done |-> TRUE]
                 @@ analyzeCommits(commitsIn, cfgIn.config, cfgIn.breakingKeywords)
    /\ UNCHANGED <<commitsIn, cfgIn, versionVars, releaseVars, textVars>>

-----------------------------------------------------------------------------
(* Release commits, branch policy and the git log (utils/commit-parser.ts,  *)
(* utils/git.ts, funcs/git-operations.ts)                                   *)

skipCi == <<"[", "s", "k", "i", "p", " ", "c", "i", "]">>
ciSkip == <<"[", "c", "i", " ", "s", "k", "i", "p", "]">>
choreRelease == <<"c", "h", "o", "r", "e", "(", "r", "e", "l", "e", "a", "s", "e", ")", ":">>
releaseColon == <<"r", "e", "l", "e", "a", "s", "e", ":">>
bumpVersionWords == <<"b", "u", "m", "p", " ", "v", "e", "r", "s", "i", "o", "n">>
versionBumpWords == <<"v", "e", "r", "s", "i", "o", "n", " ", "b", "u", "m", "p">>
branchMain == <<"m", "a", "i", "n">>
branchFeature == <<"f", "e", "a", "t", "u", "r", "e", "/", "x">>
branchDev == <<"d", "e", "v">>
branchNested == <<"f", "i", "x", "/", "a", "/", "b">>
prefFeature == <<"f", "e", "a", "t", "u", "r", "e", "/">>
prefFix == <<"f", "i", "x", "/">>
prefChore == <<"c", "h", "o", "r", "e", "/">>
prereleasePrefix == <<"c", "r", "u", "m", "b", "s">>
endMarker == <<"-", "-", "E", "N", "D", "-", "-">>
releasePrefix == <<"c", "h", "o", "r", "e", "(", "r", "e", "l", "e", "a", "s", "e", ")", ":", " ">>
releaseSuffix == <<" ", "[", "s", "k", "i", "p", " ", "c", "i", "]">>
zeroVersion == <<"0", ".", "0", ".", "0">>
UpperSeq ==
    <<"A", "B", "C", "D", "E", "F", "G", "H", "I", "J", "K", "L", "M", "N", "O", "P", "Q", "R", "S", "T", "U", "V", "W", "X", "Y", "Z">>
LowerSeq ==
    <<"a", "b", "c", "d", "e", "f", "g", "h", "i", "j", "k", "l", "m", "n", "o", "p", "q", "r", "s", "t", "u", "v", "w", "x", "y", "z">>

\* the regex flag i: compare in lower case
toLower(c) ==
    IF c \in Upper THEN LowerSeq[CHOOSE i \in 1..26 : UpperSeq[i] = c] ELSE c

lowerCase(s) == [i \in 1..Len(s) |-> toLower(s[i])]

\* commit.trim().split("\n")[0]
firstLine(commit) == split(trim(commit), "\n")[1]

dropDigits(s) == Slice(s, PrefixLen(s, Digit) + 1, Len(s))
startsDigitsDot(s) == PrefixLen(s, Digit) >= 1 /\ StartsWith(dropDigits(s), <<".">>)

\* /^\d+\.\d+\.\d+/.test(s)
startsWithVersion(s) ==
    /\ startsDigitsDot(s)
    /\ startsDigitsDot(Tail(dropDigits(s)))
    /\ PrefixLen(Tail(dropDigits(Tail(dropDigits(s)))), Digit) >= 1

\* the tests of isReleaseCommit on the subject line
isReleaseSubject(subject) ==
    \/ Includes(lowerCase(subject), skipCi)
    \/ Includes(lowerCase(subject), ciSkip)
    \/ StartsWith(subject, choreRelease)
    \/ StartsWith(subject, releaseColon)
    \/ StartsWith(lowerCase(subject), bumpVersionWords)
    \/ StartsWith(lowerCase(subject), versionBumpWords)
    \/ startsWithVersion(subject)

isReleaseCommit(commit) ==
    firstLine(commit) # <<>> /\ isReleaseSubject(firstLine(commit))

\* a bug variant: a release commit message the filter does not recognise
plainReleaseMessage(version) == <<"R", "e", "l", "e", "a", "s", "e", " ">> \o version

\* commitChanges: `chore(release): ${analysis.version} [skip ci]`
releaseMessage(version) == releasePrefix \o version \o releaseSuffix

\* CONFIG.branches.prereleasePattern.test(branch): /^(feature|fix|chore)\//
matchesPrereleasePattern(branch) ==
    StartsWith(branch, prefFeature) \/ StartsWith(branch, prefFix)
        \/ StartsWith(branch, prefChore)

isBranchAllowed(branch) == branch = branchMain \/ matchesPrereleasePattern(branch)

\* a bug variant: only the first slash is replaced
replaceFirstSlash(s) ==
    [i \in 1..Len(s) |->
        IF s[i] = "/" /\ i = Min(Positions(s, "/")) THEN "-" ELSE s[i]]

\* branch.replace(/\//g, "-")
replaceSlashes(s) == [i \in 1..Len(s) |-> IF s[i] = "/" THEN "-" ELSE s[i]]

getPrereleaseTag(branch) ==
    IF branch = branchMain THEN None
    ELSE IF ~matchesPrereleasePattern(branch) THEN None
    ELSE Some(prereleasePrefix \o <<"-">> \o replaceSlashes(branch))

\* the body getCommitsWithHashesSinceLastTag extracts: exec() trims the git
\* output and split("\n--END--\n") leaves the final marker on the last chunk
bodyOf(c, isLast) ==
    trim(IF isLast THEN c.body \o <<"\n">> \o endMarker ELSE c.body)

commitInfoOf(c, isLast) ==
    [hash |-> c.hash,
     message |-> IF bodyOf(c, isLast) # <<>>
                 THEN c.subject \o <<"\n", "\n">> \o bodyOf(c, isLast)
                 ELSE c.subject]

\* history: the commits since the last tag as git log lists them
getCommitsWithHashesSinceLastTag(history) ==
    SelectSeq([i \in 1..Len(history) |-> commitInfoOf(history[i], i = Len(history))],
              LAMBDA c : c.hash # <<>> /\ c.message # <<>>)

-----------------------------------------------------------------------------
(* Formatting (utils/formatting.ts)                                         *)

\* String.prototype.indexOf, counted from 1; 0 when p does not occur
indexOf(s, p) ==
    IF Includes(s, p)
    THEN Min({i \in 1..(Len(s) - Len(p) + 1) : Slice(s, i, i + Len(p) - 1) = p})
    ELSE 0

\* the replacement text of String.prototype.replace with its patterns
\* expanded: $$ is a dollar sign, $& the matched text and $' the text after
\* the match (the pattern for the text before the match is left out: no
\* input of the model holds a backquote)
RECURSIVE expandReplacement(_, _, _, _)
expandReplacement(r, matched, before, after) ==
    IF r = <<>> THEN <<>>
    ELSE IF Len(r) >= 2 /\ r[1] = "$" /\ r[2] \in {"$", "&", "'"}
    THEN (CASE r[2] = "$" -> <<"$">>
            [] r[2] = "&" -> matched
            [] OTHER -> after)
         \o expandReplacement(Slice(r, 3, Len(r)), matched, before, after)
    ELSE <<r[1]>> \o expandReplacement(Tail(r), matched, before, after)

\* s.replace(p, r) with a string pattern: the first occurrence only
replace(s, p, r) ==
    IF indexOf(s, p) = 0 THEN s
    ELSE Slice(s, 1, indexOf(s, p) - 1)
         \o expandReplacement(r, p, Slice(s, 1, indexOf(s, p) - 1),
                              Slice(s, indexOf(s, p) + Len(p), Len(s)))
         \o Slice(s, indexOf(s, p) + Len(p), Len(s))

\* a property key that is an array index: a canonical decimal numeral
isArrayIndex(key) ==
    /\ key # <<>>
    /\ \A i \in 1..Len(key) : key[i] \in Digit
    /\ (Len(key) > 1 => key[1] # "0")

RECURSIVE ascending(_)
ascending(S) == IF S = {} THEN <<>> ELSE <<Min(S)>> \o ascending(S \ {Min(S)})

\* the entry of changes under an array-index key of value n
indexEntry(changes, n) ==
    changes[CHOOSE i \in 1..Len(changes) :
                isArrayIndex(changes[i].key) /\ Number(changes[i].key).val = n]

\* Object.entries(changes): the array-index keys in ascending numeric order,
\* then the other keys in insertion order
entries(changes) ==
    [k \in 1..Cardinality({Number(changes[i].key).val :
                             i \in {j \in 1..Len(changes) : isArrayIndex(changes[j].key)}}) |->
        indexEntry(changes,
            ascending({Number(changes[i].key).val :
                         i \in {j \in 1..Len(changes) : isArrayIndex(changes[j].key)}})[k])]
    \o SelectSeq(changes, LAMBDA e : ~isArrayIndex(e.key))

tplVersion == <<"{", "v", "e", "r", "s", "i", "o", "n", "}">>
tplDate == <<"{", "d", "a", "t", "e", "}">>
tplSection == <<"{", "s", "e", "c", "t", "i", "o", "n", "}">>
tplItem == <<"{", "i", "t", "e", "m", "}">>
githubUrl == <<"h", "t", "t", "p", "s", ":", "/", "/", "g", "i", "t", "h", "u", "b", ".", "c", "o", "m", "/">>

\* the templates used when markdownConfig gives none
defaultChangelog ==
    [versionHeader |-> <<"#", "#", " ", "[", "{", "v", "e", "r", "s", "i", "o", "n", "}", "]", " ", "-", " ", "{", "d", "a", "t", "e", "}">>,
     sectionHeader |-> <<"#", "#", "#", " ", "{", "s", "e", "c", "t", "i", "o", "n", "}">>,
     listItem |-> <<"-", " ", "{", "i", "t", "e", "m", "}">>]

defaultReleaseNotes ==
    [sectionHeader |-> <<"#", "#", "#", " ", "{", "s", "e", "c", "t", "i", "o", "n", "}">>, listItem |-> <<"-", " ", "{", "i", "t", "e", "m", "}">>]

\* markdown of CONFIG (config.ts); an element "U+..." is that code point
markdownOfCONFIG ==
    [changelog |-> defaultChangelog,
     releaseNotes |-> defaultReleaseNotes,
     sections |->
        { [key |-> sFeatures, name |-> <<"U+1F680", " ">> \o sFeatures],
          [key |-> sBugFixes, name |-> <<"U+1F41B", " ">> \o sBugFixes],
          [key |-> sDocumentation, name |-> <<"U+1F4DA", " ">> \o sDocumentation],
          [key |-> BreakingChanges,
           name |-> <<"U+1F4A5", " ">> \o <<"B", "R", "E", "A", "K", "I", "N", "G", " ", "C", "H", "A", "N", "G", "E", "S">>] }]

\* sections[sectionName] || sectionName
getSectionDisplayName(sectionName, sections) ==
    IF \E e \in sections : e.key = sectionName /\ e.name # <<>>
    THEN (CHOOSE e \in sections : e.key = sectionName).name
    ELSE sectionName

\* markdownConfig?.sections
sectionsOf(markdownConfig) ==
    IF IsSome(markdownConfig) THEN Get(markdownConfig).sections ELSE {}

\* commitMeta?.[item]
metaOf(commitMeta, item) ==
    IF IsSome(commitMeta) /\ HasKey(Get(commitMeta), item)
    THEN Some(CHOOSE e \in {Get(commitMeta)[i] : i \in 1..Len(Get(commitMeta))} :
                 e.key = item)
    ELSE None

prLink(prNumber, repoInfo) ==
    <<"[", "#">> \o prNumber \o <<"]", "(">> \o githubUrl \o repoInfo.owner \o <<"/">>
    \o repoInfo.repo \o <<"/", "p", "u", "l", "l", "/">> \o prNumber \o <<")">>

commitLink(hash, repoInfo) ==
    <<"[">> \o Slice(hash, 1, Min({7, Len(hash)})) \o <<"]", "(">> \o githubUrl
    \o repoInfo.owner \o <<"/">> \o repoInfo.repo \o <<"/", "c", "o", "m", "m", "i", "t", "/">> \o hash \o <<")">>

\* the links array of createLinks
linksOf(meta, repoInfo) ==
    (IF IsSome(meta.prNumber) /\ Get(meta.prNumber) # <<>>
     THEN <<prLink(Get(meta.prNumber), repoInfo)>> ELSE <<>>)
    \o (IF meta.hash # <<>> /\ ~(IsSome(meta.prNumber) /\ Get(meta.prNumber) # <<>>)
        THEN <<commitLink(meta.hash, repoInfo)>> ELSE <<>>)

\* links.join(", ")
RECURSIVE joinLinks(_)
joinLinks(links) ==
    IF links = <<>> THEN <<>>
    ELSE IF Len(links) = 1 THEN links[1]
    ELSE links[1] \o <<",", " ">> \o joinLinks(Tail(links))

createLinks(item, commitMeta, repoInfo) ==
    IF ~IsSome(commitMeta) \/ ~IsSome(repoInfo) THEN item
    ELSE IF Len(linksOf(Get(commitMeta), Get(repoInfo))) > 0
    THEN item \o <<" ", "(">> \o joinLinks(linksOf(Get(commitMeta), Get(repoInfo)))
         \o <<")">>
    ELSE item

\* the text one item adds to the entry
itemLine(listItem, item, commitMeta, repoInfo) ==
    replace(listItem, tplItem, createLinks(item, metaOf(commitMeta, item), repoInfo))
    \o <<"\n">>

RECURSIVE itemLines(_, _, _, _)
itemLines(listItem, items, commitMeta, repoInfo) ==
    IF items = <<>> THEN <<>>
    ELSE itemLine(listItem, Head(items), commitMeta, repoInfo)
         \o itemLines(listItem, Tail(items), commitMeta, repoInfo)

\* the text one section adds to the entry
sectionText(tpl, e, sections, commitMeta, repoInfo) ==
    replace(tpl.sectionHeader, tplSection, getSectionDisplayName(e.key, sections))
    \o <<"\n", "\n">>
    \o itemLines(tpl.listItem, e.items, commitMeta, repoInfo)
    \o <<"\n">>

\* the loop over Object.entries(changes)
RECURSIVE sectionsText(_, _, _, _, _)
sectionsText(tpl, es, sections, commitMeta, repoInfo) ==
    IF es = <<>> THEN <<>>
    ELSE sectionText(tpl, Head(es), sections, commitMeta, repoInfo)
         \o sectionsText(tpl, Tail(es), sections, commitMeta, repoInfo)

\* date is formatDate(new Date(), config.dateFormat)
formatChangelogEntry(version, date, changes, markdownConfig, commitMeta, repoInfo) ==
    replace(replace((IF IsSome(markdownConfig) THEN Get(markdownConfig).changelog
                     ELSE defaultChangelog).versionHeader,
                    tplVersion, version),
            tplDate, date)
    \o <<"\n", "\n">>
    \o sectionsText(IF IsSome(markdownConfig) THEN Get(markdownConfig).changelog
                    ELSE defaultChangelog,
                    entries(changes), sectionsOf(markdownConfig), commitMeta, repoInfo)

formatReleaseNotes(changes, markdownConfig, commitMeta, repoInfo) ==
    sectionsText(IF IsSome(markdownConfig) THEN Get(markdownConfig).releaseNotes
                 ELSE defaultReleaseNotes,
                 entries(changes), sectionsOf(markdownConfig), commitMeta, repoInfo)

\* the date formatDate(new Date(), ...) yields, and the owner and
\* repository getRepositoryInfo reads from the remote
isoDate == <<"2", "0", "2", "4", "-", "0", "1", "-", "1", "5">>
repoInfoInput == [owner |-> <<"o", "w", "n", "e", "r">>, repo |-> <<"r", "e", "p", "o">>]

-----------------------------------------------------------------------------
(* The world the release steps act on.  w holds the files, the git          *)
(* repository, the npm registry, the GitHub releases and log, the sequence  *)
(* of file, command and network operations performed so far.  fail names    *)
(* the external operation that fails during the call, or is "none".         *)

Logged(w, op) == [w EXCEPT !.log = Append(@, op)]

\* a step's outcome: the world it leaves and the message of the error it
\* rejects with ("" when it resolves)
Result(w, err) == [w |-> w, error |-> err]

\* the AnalysisResult returned on the error paths
errorResult(msg, v) ==
    [error |-> msg, bump |-> "patch", version |-> v, currentVersion |-> v,
     hasChanges |-> FALSE, isPrerelease |-> FALSE, changes |-> <<>>,
     hasOnlyHiddenChanges |-> FALSE, prereleaseTag |-> None, commitMeta |-> <<>>,
     commitCount |-> 0]

\* outcome of the try block of analyzeCommitsForRelease
Returned(a) == [threw |-> FALSE, msg |-> "", analysis |-> a]
Thrown(msg) == [threw |-> TRUE, msg |-> msg, analysis |-> errorResult(msg, zeroVersion)]

\* the successful return of analyzeCommitsForRelease
finishAnalysis(w, env, commits, analysis, newVersion) ==
    IF ~newVersion.ok THEN Thrown(newVersion.error)
    ELSE Returned(
        [error |-> "", bump |-> analysis.bump, version |-> newVersion.value,
         currentVersion |-> w.pkgVersion,
         hasChanges |-> Len(analysis.changes) > 0,
         isPrerelease |-> getPrereleaseTag(env.branch) # None
                            /\ Get(getPrereleaseTag(env.branch)) # <<>>,
         changes |-> analysis.changes,
         hasOnlyHiddenChanges |-> analysis.hasOnlyHiddenChanges,
         prereleaseTag |-> getPrereleaseTag(env.branch),
         commitMeta |-> analysis.commitMeta,
         commitCount |-> Len(commits)])

analyzeFiltered(w, env, commits) ==
    IF commits = <<>>
    THEN Returned(errorResult("No non-release commits found since last tag", w.pkgVersion))
    ELSE IF analyzeCommits(commits, CONFIG, CONFIG.breakingKeywords).error # ""
    THEN Thrown(analyzeCommits(commits, CONFIG, CONFIG.breakingKeywords).error)
    ELSE finishAnalysis(w, env, commits,
            analyzeCommits(commits, CONFIG, CONFIG.breakingKeywords),
            bumpVersion(w.pkgVersion,
                        analyzeCommits(commits, CONFIG, CONFIG.breakingKeywords).bump,
                        getPrereleaseTag(env.branch)))

analyzeHistory(w, env, allCommits) ==
    IF allCommits = <<>>
    THEN Returned(errorResult("No commits found since last tag", w.pkgVersion))
    ELSE analyzeFiltered(w, env,
            SelectSeq(allCommits, LAMBDA c : ~isReleaseCommit(c.message)))

\* the try block of analyzeCommitsForRelease
analysisBody(w, env, fail) ==
    IF fail = "read package.json" THEN Thrown("ENOENT: package.json")
    ELSE IF fail = "git rev-parse" THEN Thrown("Command failed: git rev-parse")
    ELSE IF ~isBranchAllowed(env.branch)
    THEN Returned(errorResult("Branch is not allowed for releases", w.pkgVersion))
    ELSE IF fail = "git log" THEN Thrown("Command failed: git log")
    ELSE analyzeHistory(w, env, getCommitsWithHashesSinceLastTag(w.history))

\* the operations analyzeCommitsForRelease performs (all of them reads)
analysisLog(env, fail) ==
    <<"fs.read package.json">>
    \o (IF fail = "read package.json" THEN <<>> ELSE <<"exec git rev-parse">>)
    \o (IF fail \in {"read package.json", "git rev-parse"} \/ ~isBranchAllowed(env.branch)
        THEN <<>> ELSE <<"exec git describe", "exec git log">>)

\* a bug variant: the error of the try block escapes
catchNothing(r) == r

\* the catch block: a throw becomes an error result, nothing escapes
catchAnalysis(r) == [threw |-> FALSE, msg |-> "", analysis |-> r.analysis]

analyzeCommitsForRelease(w, env, fail) == catchAnalysis(analysisBody(w, env, fail))

-----------------------------------------------------------------------------
(* The release steps (funcs/version-manager, changelog-generator,           *)
(* git-operations, npm-publisher, github-release)                           *)

\* a bug variant: the guard on analysis.error is missing
neverError(analysis) == FALSE

\* if (analysis.error) throw new Error(analysis.error)
hasError(analysis) == analysis.error # ""

savePackageJson(w, version) ==
    Logged([w EXCEPT !.pkgVersion = version], "fs.write package.json")

\* npm install --package-lock-only, then npm install --no-save as a fallback;
\* when both fail only a warning is printed
npmInstall(w, version, fail) ==
    IF fail = "npm install both"
    THEN Logged(Logged(w, "exec npm install --package-lock-only"),
                "exec npm install --no-save")
    ELSE IF fail = "npm install first"
    THEN Logged([Logged(w, "exec npm install --package-lock-only")
                    EXCEPT !.lockVersion = Some(version)],
                "exec npm install --no-save")
    ELSE Logged([w EXCEPT !.lockVersion = Some(version)],
                "exec npm install --package-lock-only")

bumpPackageVersion(w, analysis, dryRun, fail) ==
    IF hasError(analysis) THEN Result(w, analysis.error)
    ELSE IF fail = "read package.json"
    THEN Result(Logged(w, "fs.read package.json"), "ENOENT: package.json")
    ELSE IF dryRun THEN Result(Logged(w, "fs.read package.json"), "")
    ELSE Result(npmInstall(savePackageJson(Logged(w, "fs.read package.json"),
                                           analysis.version),
                           analysis.version, fail), "")

\* existsSync("CHANGELOG.md") and, when it exists, readFileSync
readChangelog(w) ==
    IF IsSome(w.changelog)
    THEN Logged(Logged(w, "fs.exists CHANGELOG.md"), "fs.read CHANGELOG.md")
    ELSE Logged(w, "fs.exists CHANGELOG.md")

\* the text a missing CHANGELOG.md starts from
standardHeader ==
    <<"#", " ", "C", "h", "a", "n", "g", "e", "l", "o", "g", "\n", "\n", "A", "l", "l", " ", "n", "o", "t", "a", "b", "l", "e", " ", "c", "h", "a", "n", "g", "e", "s", " ", "t", "o", " ", "t", "h", "i", "s", " ", "p", "r", "o", "j", "e", "c", "t", " ", "w", "i", "l", "l", " ", "b", "e", " ", "d", "o", "c", "u", "m", "e", "n", "t", "e", "d", " ", "i", "n", " ", "t", "h", "i", "s", " ", "f", "i", "l", "e", ".", "\n", "\n">>
allNotable == <<"A", "l", "l", " ", "n", "o", "t", "a", "b", "l", "e", " ", "c", "h", "a", "n", "g", "e", "s", " ", "t", "o", " ", "t", "h", "i", "s", " ", "p", "r", "o", "j", "e", "c", "t", " ", "w", "i", "l", "l", " ", "b", "e", " ", "d", "o", "c", "u", "m", "e", "n", "t", "e", "d", " ", "i", "n", " ", "t", "h", "i", "s", " ", "f", "i", "l", "e", ".">>
entryPrefix == <<"#", "#", " ", "[">>

\* lines.join("\n")
RECURSIVE joinLines(_)
joinLines(lines) ==
    IF lines = <<>> THEN <<>>
    ELSE IF Len(lines) = 1 THEN lines[1]
    ELSE lines[1] \o <<"\n">> \o joinLines(Tail(lines))

\* a bug variant: the new entry goes below everything in the file
insertAtEnd(lines) == Len(lines)

\* insertIndex: the first line that starts a version entry, else two lines
\* after the "All notable changes" line, else Math.min(4, lines.length)
insertIndexOf(lines) ==
    IF \E i \in 1..Len(lines) : StartsWith(lines[i], entryPrefix)
    THEN Min({i \in 1..Len(lines) : StartsWith(lines[i], entryPrefix)}) - 1
    ELSE IF \E j \in 1..Len(lines) : trim(lines[j]) = allNotable
    THEN Min({j \in 1..Len(lines) : trim(lines[j]) = allNotable}) - 1 + 2
    ELSE Min({4, Len(lines)})

\* lines.splice(start, 0, a, b); start is clamped to the length
splice2(lines, start, a, b) ==
    Slice(lines, 1, Min({start, Len(lines)})) \o <<a, b>>
    \o Slice(lines, Min({start, Len(lines)}) + 1, Len(lines))

\* updatedChangelog: the file with the new entry inserted
updatedChangelog(changelog, newEntry) ==
    joinLines(splice2(split(changelog, "\n"), insertIndexOf(split(changelog, "\n")),
                      trim(newEntry), <<>>))

\* getRepositoryInfo(): owner and repo of the git remote origin, null when
\* the remote cannot be read; GITHUB_REPOSITORY is not consulted
repoForLinksOf(e) == IF IsSome(e.remote) THEN Some(repoInfoInput) ELSE None

\* formatChangelogEntry(analysis.version, analysis.changes, markdownConfig,
\* analysis.commitMeta, repoForLinks); the callers pass no markdownConfig
newEntryOf(e, analysis) ==
    formatChangelogEntry(analysis.version, isoDate, analysis.changes, None,
                         Some(analysis.commitMeta), repoForLinksOf(e))

\* writeFileSync("CHANGELOG.md", updatedChangelog)
writeChangelog(w, e, analysis) ==
    Logged([w EXCEPT !.changelog =
                Some(updatedChangelog(IF IsSome(@) THEN Get(@) ELSE standardHeader,
                                      newEntryOf(e, analysis)))],
           "fs.write CHANGELOG.md")

generateChangelog(w, e, analysis, dryRun, fail) ==
    IF hasError(analysis) THEN Result(w, analysis.error)
    ELSE IF ~analysis.hasChanges THEN Result(w, "")
    ELSE IF dryRun
    THEN Result(Logged(readChangelog(w), "exec git remote get-url origin"), "")
    ELSE IF fail = "write CHANGELOG.md"
    THEN Result(Logged(readChangelog(w), "exec git remote get-url origin"),
                "EACCES: CHANGELOG.md")
    ELSE Result(writeChangelog(Logged(readChangelog(w), "exec git remote get-url origin"),
                               e, analysis), "")

\* the existsSync calls that build filesToCommit
probeFiles(w, analysis) ==
    IF analysis.hasChanges
    THEN Logged(Logged(w, "fs.exists CHANGELOG.md"), "fs.exists package-lock.json")
    ELSE Logged(w, "fs.exists package-lock.json")

\* git add of every file of filesToCommit that exists
stageFiles(w, analysis) ==
    Logged([w EXCEPT !.staged =
                {"package.json"}
                \cup (IF analysis.hasChanges /\ IsSome(w.changelog)
                      THEN {"CHANGELOG.md"} ELSE {})
                \cup (IF IsSome(w.lockVersion) THEN {"package-lock.json"} ELSE {})],
           "exec git add")

\* git commit -m message: the commit becomes the newest one since the last tag
gitCommit(w, message) ==
    Logged([w EXCEPT !.staged = {},
                     !.commits = Append(@, message),
                     !.history = <<[hash |-> hashOf(MaxHistory + Len(w.commits) + 1),
                                    subject |-> message, body |-> <<>>]>> \o @],
           "exec git commit")

commitChanges(w, analysis, dryRun, fail) ==
    IF hasError(analysis) THEN Result(w, analysis.error)
    ELSE IF dryRun THEN Result(probeFiles(w, analysis), "")
    ELSE IF fail = "git commit"
    THEN Result(Logged(stageFiles(probeFiles(w, analysis), analysis), "exec git commit"),
                "Command failed: git commit")
    ELSE Result(gitCommit(stageFiles(probeFiles(w, analysis), analysis),
                          releaseMessage(analysis.version)), "")

\* git tag -a v<version>: afterwards no commit is newer than the last tag
gitTag(w, version) ==
    Logged([w EXCEPT !.tags = Append(@, <<"v">> \o version), !.history = <<>>],
           "exec git tag")

\* a bug variant: the tag is created in a dry run too
createTagAlways(w, analysis, dryRun, fail) ==
    IF analysis.error # "" THEN Result(w, analysis.error)
    ELSE IF fail = "git tag"
    THEN Result(Logged(w, "exec git tag"), "Command failed: git tag")
    ELSE Result(gitTag(w, analysis.version), "")

\* the object createTag returns
createTagReport(analysis, dryRun) ==
    [success |-> TRUE, dryRun |-> dryRun, tag |-> <<"v">> \o analysis.version,
     version |-> analysis.version, isPrerelease |-> analysis.isPrerelease]

createTag(w, analysis, dryRun, fail) ==
    IF hasError(analysis) THEN Result(w, analysis.error)
    ELSE IF dryRun THEN Result(w, "")
    ELSE IF fail = "git tag"
    THEN Result(Logged(w, "exec git tag"), "Command failed: git tag")
    ELSE Result(gitTag(w, analysis.version), "")

\* the registry holds the version: `npm view name@version version` prints it
versionExists(w, version) ==
    \E i \in 1..Len(w.published) : w.published[i].version = version

\* the try around npm view and its catch: the 'already exists on NPM' error
\* is thrown inside the try, so the catch of the same statement takes it; its
\* message has no "npm ERR! code E404", the catch warns and returns
npmView(w, analysis) ==
    IF versionExists(w, analysis.version)
    THEN Logged(Logged(w, "exec npm view"), "console.warn")
    ELSE Logged(w, "exec npm view")

\* ~/.npmrc is written (real runs only), then npm view checks the version
checkNpm(w, env, analysis, dryRun) ==
    npmView(IF dryRun THEN w
            ELSE Logged([w EXCEPT !.npmrc = Some(env.npmToken)], "fs.write ~/.npmrc"),
            analysis)

npmPublish(w, analysis) ==
    Logged([w EXCEPT !.published =
                Append(@, [version |-> analysis.version,
                           tag |-> IF analysis.isPrerelease THEN "next" ELSE "latest"])],
           "exec npm publish")

\* publishNpm from `if (!dryRun)` on; the registry refuses a version it
\* already holds
publishAndPack(w, analysis, dryRun, fail) ==
    IF dryRun THEN Result(Logged(w, "exec npm pack --dry-run"), "")
    ELSE IF fail = "npm publish" \/ versionExists(w, analysis.version)
    THEN Result(Logged(w, "exec npm publish"), "Command failed: npm publish")
    ELSE Result(Logged(npmPublish(w, analysis), "exec npm pack --dry-run"), "")

publishNpm(w, e, analysis, dryRun, skipAuth, fail) ==
    IF hasError(analysis) THEN Result(w, analysis.error)
    ELSE IF fail = "read package.json"
    THEN Result(Logged(w, "fs.read package.json"), "ENOENT: package.json")
    ELSE IF skipAuth
    THEN publishAndPack(Logged(w, "fs.read package.json"), analysis, dryRun, fail)
    ELSE IF e.npmToken = ""
    THEN Result(Logged(w, "fs.read package.json"),
                "NPM authentication token not found. Set NPM_TOKEN environment variable.")
    ELSE publishAndPack(checkNpm(Logged(w, "fs.read package.json"), e, analysis, dryRun),
                        analysis, dryRun, fail)

\* process.env.GITHUB_REPOSITORY || repoInfo?.fullName || "unknown"
repositoryOf(e) ==
    IF e.repoEnv # "" THEN e.repoEnv
    ELSE IF IsSome(e.remote) THEN Get(e.remote)
    ELSE "unknown"

\* a bug variant: the release is tagged with the version before the bump
postReleaseCurrent(w, e, analysis) ==
    Logged([w EXCEPT !.releases =
                Append(@, [tag |-> <<"v">> \o analysis.currentVersion,
                           body |-> formatReleaseNotes(analysis.changes, None,
                                       Some(analysis.commitMeta), repoForLinksOf(e)),
                           repository |-> repositoryOf(e),
                           prerelease |-> analysis.isPrerelease])],
           "fetch POST api.github.com/repos/releases")

postRelease(w, e, analysis) ==
    Logged([w EXCEPT !.releases =
                Append(@, [tag |-> <<"v">> \o analysis.version,
                           body |-> formatReleaseNotes(analysis.changes, None,
                                       Some(analysis.commitMeta), repoForLinksOf(e)),
                           repository |-> repositoryOf(e),
                           prerelease |-> analysis.isPrerelease])],
           "fetch POST api.github.com/repos/releases")

\* createGithubRelease from `if (!dryRun)` on
createAfterAuth(w, e, analysis, dryRun, fail) ==
    IF dryRun THEN Result(w, "")
    ELSE IF fail = "github post"
    THEN Result(Logged(w, "fetch POST api.github.com/repos/releases"), "GitHub API error")
    ELSE Result(postRelease(w, e, analysis), "")

\* the checks made when skipAuth is false
githubAuth(w, e, analysis, dryRun, fail) ==
    IF e.githubToken = ""
    THEN Result(w, "GITHUB_TOKEN environment variable is required for GitHub releases")
    ELSE IF repositoryOf(e) = "unknown"
    THEN Result(w, "Could not determine repository.")
    ELSE IF fail = "github auth"
    THEN Result(Logged(w, "fetch GET api.github.com/user"), "GitHub authentication failed")
    ELSE createAfterAuth(Logged(w, "fetch GET api.github.com/user"),
                         e, analysis, dryRun, fail)

createGithubRelease(w, e, analysis, dryRun, skipAuth, fail) ==
    IF hasError(analysis) THEN Result(w, analysis.error)
    ELSE IF ~skipAuth
    THEN githubAuth(Logged(w, "exec git remote get-url origin"), e, analysis, dryRun, fail)
    ELSE createAfterAuth(Logged(w, "exec git remote get-url origin"),
                         e, analysis, dryRun, fail)

gitPush(w) ==
    Logged([w EXCEPT !.pushed = [commits |-> Len(w.commits), tags |-> Len(w.tags)]],
           "exec git push")

pushChanges(w, dryRun, fail) ==
    IF dryRun THEN Result(w, "")
    ELSE IF fail = "git push"
    THEN Result(Logged(w, "exec git push"), "Command failed: git push")
    ELSE Result(gitPush(w), "")

-----------------------------------------------------------------------------
(* Inputs of the release: worlds, environments, options, injected faults *)

v123 == Core(1, 2, 3)
v12 == <<"1", ".", "2">>
repoFullName == "owner/repo"

\* the commit of a git history whose message is m (subject, blank line, body)
historyEntry(i, m) ==
    [hash |-> hashOf(i),
     subject |-> split(m, "\n")[1],
     body |-> IF Len(split(m, "\n")) >= 3 THEN split(m, "\n")[3] ELSE <<>>]

HistoryMessages == {mFeat, mBumpHidden, releaseMessage(v123)}

Histories ==
    UNION { { [i \in 1..n |-> historyEntry(i, f[i])] : f \in [1..n -> HistoryMessages] } :
            n \in 0..MaxHistory }

\* a checkout with package.json at version v and the commits hist since the last tag
World(v, hist) ==
    [pkgVersion |-> v, lockVersion |-> Some(v), changelog |-> None, npmrc |-> None,
     staged |-> {}, commits |-> <<>>, history |-> hist, tags |-> <<>>,
     pushed |-> [commits |-> 0, tags |-> 0], published |-> <<>>, releases |-> <<>>,
     log |-> <<>>]

\* package.json holds a valid version, or (with at most one commit) an invalid one
Worlds ==
    {World(v123, h) : h \in Histories}
    \cup {World(v12, h) : h \in {x \in Histories : Len(x) <= 1}}

Branches == {branchMain, branchFeature, branchDev}

Env(b, n, g, remote, repoEnv) ==
    [branch |-> b, npmToken |-> n, githubToken |-> g, remote |-> remote,
     repoEnv |-> repoEnv]

\* NPM_TOKEN and GITHUB_TOKEN, each unset or set
Tokens == {<<"", "">>, <<"npm-token", "">>, <<"", "github-token">>,
           <<"npm-token", "github-token">>}

\* on main in a clone of a GitHub repository; with both tokens also without a
\* GitHub remote, GITHUB_REPOSITORY unset and set
MainEnvs ==
    {Env(branchMain, t[1], t[2], Some(repoFullName), "") : t \in Tokens}
    \cup {Env(branchMain, "npm-token", "github-token", None, r) : r \in {"", repoFullName}}

\* also a prerelease branch, a branch that is not allowed, and a prerelease
\* branch with two slashes in its name
Envs ==
    MainEnvs
    \cup {Env(branchFeature, t[1], t[2], Some(repoFullName), "") : t \in Tokens}
    \cup {Env(branchDev, "npm-token", "github-token", Some(repoFullName), "")}
    \cup {Env(branchNested, "npm-token", "github-token", Some(repoFullName), "")}

\* ReleaseOptions; every flag defaults to false
DefaultOptions ==
    [dryRun |-> FALSE, skipNpm |-> FALSE, skipGithub |-> FALSE, skipChangelog |-> FALSE]

Options ==
    [dryRun : BOOLEAN, skipNpm : BOOLEAN, skipGithub : BOOLEAN, skipChangelog : BOOLEAN]

AnalysisFaults == {"none", "read package.json", "git rev-parse", "git log"}
BumpFaults == {"none", "read package.json", "npm install first", "npm install both"}
\* within release() the npm install failures, which bumpPackageVersion
\* swallows, are left to the direct calls of the step
ReleaseBumpFaults == {"none", "read package.json"}
ChangelogFaults == {"none", "write CHANGELOG.md"}
CommitFaults == {"none", "git commit"}
TagFaults == {"none", "git tag"}
PublishFaults == {"none", "read package.json", "npm publish"}
GithubFaults == {"none", "github auth", "github post"}
PushFaults == {"none", "git push"}

NoOutcome == [status |-> "none", msg |-> ""]
Running == [status |-> "running", msg |-> ""]
Resolved == [status |-> "resolved", msg |-> ""]
\* release() rejects with `Release failed: ${msg}`, a step with msg itself
Rejected(msg) == [status |-> "rejected", msg |-> msg]
\* a bug variant: the error of the step is passed on as it is
rethrown(msg) == Rejected(msg)
\* throw new Error(`Release failed: ${errorMessage}`)
releaseFailed(msg) == [status |-> "rejected", msg |-> <<"Release failed: ", msg>>]

Fresh(w) == [w EXCEPT !.log = <<>>]

ReleaseInit ==
    /\ world \in Worlds
    /\ world0 = world
    /\ envIn \in Envs
    /\ opts = DefaultOptions
    /\ pc = "idle"
    /\ ar = None
    /\ outcome = NoOutcome
    /\ runs = 0

ReleaseIdle ==
    /\ world = World(v123, <<>>)
    /\ world0 = world
    /\ envIn = Env(branchMain, "", "", None, "")
    /\ opts = DefaultOptions
    /\ pc = "idle"
    /\ ar = None
    /\ outcome = NoOutcome
    /\ runs = 0

-----------------------------------------------------------------------------
(* ReleaseOrchestrator.release(options), one action per step *)

\* the analysis release() works with
Analysis == Get(ar).analysis

\* release(options) is called
StartRelease ==
    /\ pc \in {"idle", "done", "failed"}
    /\ runs < MaxRuns
    /\ \E o \in Options : opts' = o
    /\ world' = Fresh(world)
    /\ world0' = Fresh(world)
    /\ pc' = "analyze"
    /\ ar' = None
    /\ outcome' = Running
    /\ runs' = runs + 1
    /\ UNCHANGED <<envIn, versionVars, analyzeVars, textVars>>

\* const analysis = await this.analyzeCommits(); if (analysis.error) throw
analyzed(fail, r) ==
    /\ ar' = Some([fail |-> fail, threw |-> r.threw, msg |-> r.msg,
                   analysis |-> r.analysis])
    /\ world' = [world EXCEPT !.log = @ \o analysisLog(envIn, fail)]
    /\ IF r.threw
       THEN pc' = "failed" /\ outcome' = releaseFailed(r.msg)
       ELSE IF hasError(r.analysis)
       THEN pc' = "failed" /\ outcome' = releaseFailed(r.analysis.error)
       ELSE pc' = "bump" /\ outcome' = outcome
    /\ UNCHANGED <<world0, envIn, opts, runs, versionVars, analyzeVars, textVars>>

AnalyzeStep ==
    /\ pc = "analyze"
    /\ \E fail \in AnalysisFaults :
          analyzed(fail, analyzeCommitsForRelease(world, envIn, fail))

\* a bug variant: the error of a step is swallowed and the next step starts
stepDoneAnyway(r, next) ==
    /\ world' = r.w
    /\ pc' = next
    /\ outcome' = (IF next = "done" THEN Resolved ELSE outcome)
    /\ UNCHANGED <<world0, envIn, opts, ar, runs, versionVars, analyzeVars, textVars>>

\* a step returned or threw: the catch of release() ends the run
stepDone(r, next) ==
    /\ world' = r.w
    /\ IF r.error # ""
       THEN pc' = "failed" /\ outcome' = releaseFailed(r.error)
       ELSE pc' = next /\ outcome' = (IF next = "done" THEN Resolved ELSE outcome)
    /\ UNCHANGED <<world0, envIn, opts, ar, runs, versionVars, analyzeVars, textVars>>

BumpStep ==
    /\ pc = "bump"
    /\ \E fail \in ReleaseBumpFaults :
          stepDone(bumpPackageVersion(world, Analysis, opts.dryRun, fail), "changelog")

\* if (!skipChangelog && analysis.hasChanges) generateChangelog
ChangelogStep ==
    /\ pc = "changelog"
    /\ IF ~opts.skipChangelog /\ Analysis.hasChanges
       THEN \E fail \in ChangelogFaults :
               stepDone(generateChangelog(world, envIn, Analysis, opts.dryRun, fail), "commit")
       ELSE stepDone(Result(world, ""), "commit")

CommitStep ==
    /\ pc = "commit"
    /\ \E fail \in CommitFaults :
          stepDone(commitChanges(world, Analysis, opts.dryRun, fail), "tag")

TagStep ==
    /\ pc = "tag"
    /\ \E fail \in TagFaults :
          stepDone(createTag(world, Analysis, opts.dryRun, fail), "publish")

\* steps.publishNpm = await this.publishNpm(analysis, dryRun, skipNpm)
PublishStep ==
    /\ pc = "publish"
    /\ \E fail \in PublishFaults :
          stepDone(publishNpm(world, envIn, Analysis, opts.dryRun, opts.skipNpm, fail),
                   "github")

\* if (!skipGithub) createGithubRelease(analysis, dryRun, skipGithub)
GithubStep ==
    /\ pc = "github"
    /\ IF ~opts.skipGithub
       THEN \E fail \in GithubFaults :
               stepDone(createGithubRelease(world, envIn, Analysis, opts.dryRun,
                                            opts.skipGithub, fail), "push")
       ELSE stepDone(Result(world, ""), "push")

\* if (!dryRun) pushChanges(dryRun)
PushStep ==
    /\ pc = "push"
    /\ IF ~opts.dryRun
       THEN \E fail \in PushFaults :
               stepDone(pushChanges(world, opts.dryRun, fail), "done")
       ELSE stepDone(Result(world, ""), "done")

ReleaseNext ==
    \/ StartRelease
    \/ AnalyzeStep
    \/ BumpStep
    \/ ChangelogStep
    \/ CommitStep
    \/ TagStep
    \/ PublishStep
    \/ GithubStep
    \/ PushStep

-----------------------------------------------------------------------------
(* The six steps called directly, as the orchestrator's methods allow *)

StepNames ==
    {"bumpPackageVersion", "generateChangelog", "commitChanges", "createTag",
     "publishNpm", "createGithubRelease"}

\* checkouts the steps are called in: nothing to release, a visible change
\* (the newest commit), a hidden change only, and the visible change with its
\* version 1.3.0 already on the registry
StepWorlds ==
    {World(v123, <<>>),
     World(v123, <<historyEntry(1, mFeat), historyEntry(2, mFix)>>),
     World(v123, <<historyEntry(1, mBumpHidden), historyEntry(2, mFix)>>),
     [World(v123, <<historyEntry(1, mFeat), historyEntry(2, mFix)>>)
        EXCEPT !.published = <<[version |-> Core(1, 3, 0), tag |-> "latest"]>>]}

\* analyses handed to a step: a failed one as the tests build it, and the
\* results of analyzeCommitsForRelease
AnalysisInputs ==
    {errorResult("Test error", v123)}
    \cup {analyzeCommitsForRelease(wd, Env(b, "", "", None, ""), "none").analysis :
            wd \in StepWorlds, b \in {branchMain, branchFeature}}

\* dryRun and skipAuth are the options a step takes
StepOptions == {o \in Options : ~o.skipChangelog /\ o.skipNpm = o.skipGithub}

\* the caller holds one analysis and hands it to the steps it calls
StepsInit ==
    /\ world \in StepWorlds
    /\ world0 = world
    /\ envIn \in MainEnvs
    /\ opts = DefaultOptions
    /\ pc = "idle"
    /\ ar \in {Some([fail |-> "none", threw |-> FALSE, msg |-> "", analysis |-> a]) :
                a \in AnalysisInputs}
    /\ outcome = NoOutcome
    /\ runs = 0

\* step name was called with the analysis and the options o, and ended as r
stepCalled(name, o, r) ==
    /\ runs < MaxStepCalls
    /\ runs' = runs + 1
    /\ pc' = name
    /\ opts' = o
    /\ world0' = Fresh(world)
    /\ world' = r.w
    /\ outcome' = (IF r.error # "" THEN Rejected(r.error) ELSE Resolved)
    /\ UNCHANGED <<ar, envIn, versionVars, analyzeVars, textVars>>

CallBumpPackageVersion ==
    \E o \in StepOptions, fail \in BumpFaults :
        stepCalled("bumpPackageVersion", o,
                   bumpPackageVersion(Fresh(world), Analysis, o.dryRun, fail))

CallGenerateChangelog ==
    \E o \in StepOptions, fail \in ChangelogFaults :
        stepCalled("generateChangelog", o,
                   generateChangelog(Fresh(world), envIn, Analysis, o.dryRun, fail))

CallCommitChanges ==
    \E o \in StepOptions, fail \in CommitFaults :
        stepCalled("commitChanges", o,
                   commitChanges(Fresh(world), Analysis, o.dryRun, fail))

CallCreateTag ==
    \E o \in StepOptions, fail \in TagFaults :
        stepCalled("createTag", o, createTag(Fresh(world), Analysis, o.dryRun, fail))

CallPublishNpm ==
    \E o \in StepOptions, fail \in PublishFaults :
        stepCalled("publishNpm", o,
                   publishNpm(Fresh(world), envIn, Analysis, o.dryRun, o.skipNpm, fail))

CallCreateGithubRelease ==
    \E o \in StepOptions, fail \in GithubFaults :
        stepCalled("createGithubRelease", o,
                   createGithubRelease(Fresh(world), envIn, Analysis, o.dryRun,
                                       o.skipGithub, fail))

\* configurations handed to the constructor: none, the type rules only (feat
\* and fix both patch), the custom types of docs/configuration.md
PatchOnlyTypes ==
    { Rule(tFeat, "patch", Some(sFeatures), FALSE),
      Rule(tFix, "patch", Some(sBugFixes), FALSE) }

ConstructorConfigs == { <<>>, [types |-> PatchOnlyTypes], CustomConfig }

\* this.config = { ...defaultConfig, ...config }
constructedConfig(config) == config @@ CONFIG

\* new ReleaseOrchestrator(config).analyzeCommits(): the instance keeps its
\* configuration, the call is analyzeCommitsForRelease() without arguments
CallAnalyzeCommits ==
    \E config \in ConstructorConfigs, fail \in AnalysisFaults :
        /\ runs < MaxStepCalls
        /\ runs' = runs + 1
        /\ pc' = "analyzeCommits"
        /\ cfgIn' = [config |-> constructedConfig(config),
                     breakingKeywords |-> constructedConfig(config).breakingKeywords]
        /\ world0' = Fresh(world)
        /\ world' = [Fresh(world) EXCEPT !.log = analysisLog(envIn, fail)]
        /\ ar' = Some([fail |-> fail] @@ analyzeCommitsForRelease(Fresh(world), envIn, fail))
        /\ outcome' = Resolved
        /\ UNCHANGED <<opts, envIn, versionVars, commitsIn, aOut, textVars>>

StepsNext ==
    \/ CallAnalyzeCommits
    \/ CallBumpPackageVersion
    \/ CallGenerateChangelog
    \/ CallCommitChanges
    \/ CallCreateTag
    \/ CallPublishNpm
    \/ CallCreateGithubRelease

-----------------------------------------------------------------------------
(* Repeated calls of generateChangelog on one CHANGELOG.md                  *)

MaxChangelogCalls == 3

\* CHANGELOG.md before the first call: missing, the standard header, the
\* header lines without the blank lines after them, the header and an entry
headerLinesOnly ==
    <<"#", " ", "C", "h", "a", "n", "g", "e", "l", "o", "g", "\n", "\n", "A", "l", "l", " ", "n", "o", "t", "a", "b", "l", "e", " ", "c", "h", "a", "n", "g", "e", "s", " ", "t", "o", " ", "t", "h", "i", "s", " ", "p", "r", "o", "j", "e", "c", "t", " ", "w", "i", "l", "l", " ", "b", "e", " ", "d", "o", "c", "u", "m", "e", "n", "t", "e", "d", " ", "i", "n", " ", "t", "h", "i", "s", " ", "f", "i", "l", "e", ".">>
oldEntry == <<"#", "#", " ", "[", "1", ".", "2", ".", "3", "]", " ", "-", " ", "2", "0", "2", "4", "-", "0", "1", "-", "0", "1", "\n", "\n", "#", "#", "#", " ", "B", "u", "g", " ", "F", "i", "x", "e", "s", "\n", "\n", "-", " ", "o", "l", "d", " ", "f", "i", "x", "\n">>

ChangelogFiles ==
    { None, Some(standardHeader), Some(headerLinesOnly), Some(standardHeader \o oldEntry) }

\* the versions of the releases, and analyses with visible changes
ChangelogVersions == { Core(1, 3, 0), Core(1, 3, 1), Core(2, 0, 0) }

ChangelogAnalyses ==
    { [a EXCEPT !.version = v] :
        a \in {x \in AnalysisInputs : ~hasError(x) /\ x.hasChanges /\ ~x.isPrerelease},
        v \in ChangelogVersions }

\* textIn keeps the file the calls started from, textOut the versions of the
\* calls in their order
ChangelogInit ==
    /\ world \in {[World(v123, <<>>) EXCEPT !.changelog = f] : f \in ChangelogFiles}
    /\ world0 = world
    /\ envIn \in {Env(branchMain, "", "", r, "") : r \in {None, Some(repoFullName)}}
    /\ opts = DefaultOptions
    /\ pc = "idle"
    /\ ar = None
    /\ outcome = NoOutcome
    /\ runs = 0
    /\ textIn = world.changelog
    /\ textOut = <<>>

\* generateChangelog(analysis, false) with hasChanges true
GenerateChangelogCall ==
    /\ runs < MaxChangelogCalls
    /\ \E a \in ChangelogAnalyses :
          /\ world' = generateChangelog(Fresh(world), envIn, a, FALSE, "none").w
          /\ textOut' = Append(textOut, a.version)
    /\ world0' = Fresh(world)
    /\ runs' = runs + 1
    /\ pc' = "generateChangelog"
    /\ outcome' = Resolved
    /\ UNCHANGED <<envIn, opts, ar, textIn, versionVars, analyzeVars>>

-----------------------------------------------------------------------------
(* Calls of parseCommit on a message with and without its body              *)

TextIdle == textIn = <<>> /\ textOut = <<>>

bodyMore == <<"m", "o", "r", "e">>
bodyPr == <<"s", "e", "e", " ", "(", "#", "7", ")">>
bodyBreaking == <<"B", "R", "E", "A", "K", "I", "N", "G", " ", "C", "H", "A", "N", "G", "E", ":", " ", "g", "o", "n", "e">>
bodyTwoLines == <<"a", "\n", "b">>

\* one-line commit messages
Subjects ==
    { mFeat, mFix, mFeatBang, mChoreDep, mBumpHidden, mUnknownType, mFixPr,
      mFixScope, mFixSubjectKeyword, mBreakingType, mNoGrammar, mConstructor,
      mFeatInternal, mDeps }

\* commit bodies; the empty one stands for a message that has no body
Bodies == { <<>>, bodyMore, bodyPr, bodyBreaking, bodyTwoLines }

\* the message git log yields: subject, blank line, body
fullMessage(subject, body) ==
    IF body = <<>> THEN subject ELSE subject \o <<"\n", "\n">> \o body

ParseInit ==
    /\ textIn \in [subject : Subjects, body : Bodies, hash : {hashOf(1)}]
    /\ textOut = [done |-> FALSE]

\* the calls parseCommit(subject + "\n\n" + body, hash) and
\* parseCommit(subject, hash)
ParseCommitCall ==
    /\ ~textOut.done
    /\ textOut' = [done |-> TRUE,
                   full |-> parseCommit(fullMessage(textIn.subject, textIn.body),
                                        textIn.hash),
                   subjectOnly |-> parseCommit(textIn.subject, textIn.hash)]
    /\ UNCHANGED <<textIn, versionVars, analyzeVars, releaseVars>>

-----------------------------------------------------------------------------
(* Inputs of the formatting functions: the changes and commitMeta returned  *)
(* by analyzeCommits                                                        *)

sOne == <<"1">>
sTwo == <<"2">>
mDollar == <<"f", "i", "x", ":", " ", "u", "s", "e", " ", "$", "&", " ", "h", "e", "r", "e">>

\* a configuration whose section names are numerals
NumberedConfig ==
    [types |->
        { Rule(tFeat, "minor", Some(sTwo), FALSE),
          Rule(tFix, "patch", Some(sOne), FALSE) },
     hiddenScopes |-> {},
     breakingKeywords |-> CONFIG.breakingKeywords]

FormatMessages == { mFeat, mFix, mFixPr, mDollar, mFixSubjectKeyword }

FormatCommitLists(max) ==
    UNION { { [i \in 1..n |-> [hash |-> hashOf(i), message |-> f[i]]] :
                f \in [1..n -> FormatMessages] } : n \in 0..max }

\* commitMeta with neither field set in any entry
bareMeta(commitMeta) ==
    [i \in 1..Len(commitMeta) |->
        [key |-> commitMeta[i].key, hash |-> <<>>, prNumber |-> None]]

\* the commitMeta arguments: absent, as analyzeCommits returned it, or bare
metaInputs(analysis) ==
    { None, Some(analysis.commitMeta), Some(bareMeta(analysis.commitMeta)) }

formatInputsOf(commits, config, analysis) ==
    [commits : {commits}, config : {config},
     version : {v123}, date : {isoDate}, changes : {analysis.changes},
     commitMeta : metaInputs(analysis),
     markdownConfig : {None, Some(markdownOfCONFIG)},
     repoInfo : {None, Some(repoInfoInput)}]

FormatInputs(max) ==
    UNION { formatInputsOf(c, cfg, analyzeCommits(c, cfg, cfg.breakingKeywords)) :
              c \in FormatCommitLists(max), cfg \in {CONFIG, NumberedConfig} }

FormatInit ==
    /\ textIn \in FormatInputs(MaxCommits)
    /\ textOut = [changelog |-> None, notes |-> None]

FormatChangelogEntryCall ==
    /\ textOut.changelog = None
    /\ textOut' = [textOut EXCEPT !.changelog =
                      Some(formatChangelogEntry(textIn.version, textIn.date,
                              textIn.changes, textIn.markdownConfig,
                              textIn.commitMeta, textIn.repoInfo))]
    /\ UNCHANGED <<textIn, versionVars, analyzeVars, releaseVars>>

FormatReleaseNotesCall ==
    /\ textOut.notes = None
    /\ textOut' = [textOut EXCEPT !.notes =
                      Some(formatReleaseNotes(textIn.changes, textIn.markdownConfig,
                              textIn.commitMeta, textIn.repoInfo))]
    /\ UNCHANGED <<textIn, versionVars, analyzeVars, releaseVars>>

FormatNext == FormatChangelogEntryCall \/ FormatReleaseNotesCall

-----------------------------------------------------------------------------
(* parseCommit and analyzeCommits of release-lib.ts: commits are message    *)
(* strings, the rules are those installed in CONFIG                         *)

toUpper(c) ==
    IF c \in Lower THEN UpperSeq[CHOOSE i \in 1..26 : LowerSeq[i] = c] ELSE c

toUpperCase(s) == [i \in 1..Len(s) |-> toUpper(s[i])]

\* keywords.some((kw) => text.toUpperCase().includes(kw.toUpperCase()))
mentionsAny(text, keywords) ==
    \E i \in 1..Len(keywords) : Includes(toUpperCase(text), toUpperCase(keywords[i]))

\* lines.slice(1).join("\n").trim()
libBodyOf(commit) == trim(joinLines(Tail(split(trim(commit), "\n"))))

\* the part of the subject after the type: an optional (scope), an optional
\* '!', then ': ' and the description
afterScope(rest) ==
    IF rest # <<>> /\ rest[1] = "(" /\ Positions(rest, ")") # {}
       /\ Min(Positions(rest, ")")) >= 3
    THEN Slice(rest, Min(Positions(rest, ")")) + 1, Len(rest))
    ELSE rest

scopeIn(rest) ==
    IF afterScope(rest) # rest
    THEN Some(Slice(rest, 2, Min(Positions(rest, ")")) - 1))
    ELSE None

\* s.slice(i - 1)
from(s, i) == Slice(s, i, Len(s))

afterBang(s) == IF s # <<>> /\ s[1] = "!" THEN Tail(s) ELSE s

\* (.+): the characters up to the first line terminator
dotPlus(s) == Slice(s, 1, PrefixLen(s, {s[i] : i \in 1..Len(s)} \ LineTerminator))

\* subject.match(/^(\w+)(?:\(([^)]+)\))?(!)?: (.+)/)
libSubjectMatch(subject) ==
    IF /\ PrefixLen(subject, WordChar) >= 1
       /\ StartsWith(afterBang(afterScope(Slice(subject, PrefixLen(subject, WordChar) + 1,
                                                Len(subject)))), <<":", " ">>)
       /\ dotPlus(from(afterBang(afterScope(Slice(subject, PrefixLen(subject, WordChar) + 1,
                                                  Len(subject)))), 3)) # <<>>
    THEN Some([type |-> Slice(subject, 1, PrefixLen(subject, WordChar)),
               scope |-> scopeIn(Slice(subject, PrefixLen(subject, WordChar) + 1,
                                       Len(subject))),
               bang |-> afterBang(afterScope(Slice(subject, PrefixLen(subject, WordChar) + 1,
                                                   Len(subject))))
                        # afterScope(Slice(subject, PrefixLen(subject, WordChar) + 1,
                                           Len(subject))),
               description |->
                   dotPlus(from(afterBang(afterScope(Slice(subject,
                                    PrefixLen(subject, WordChar) + 1, Len(subject)))),
                                3))])
    ELSE None

\* description.replace(/\s*\(#\d+\)$/, "")
cleanDescription(description) ==
    IF IsSome(prMatch(description)) THEN stripPr(description) ELSE description

\* parseCommit(commit) of release-lib.ts: None for null
libParseCommit(commit, keywords) ==
    IF firstLine(commit) = <<>> \/ ~IsSome(libSubjectMatch(firstLine(commit)))
    THEN None
    ELSE Some([type |-> Get(libSubjectMatch(firstLine(commit))).type,
               scope |-> Get(libSubjectMatch(firstLine(commit))).scope,
               description |->
                   cleanDescription(Get(libSubjectMatch(firstLine(commit))).description),
               breaking |-> \/ Get(libSubjectMatch(firstLine(commit))).bang
                            \/ mentionsAny(libBodyOf(commit), keywords),
               body |-> libBodyOf(commit)])

\* the length of the match of /BREAKING[\s-]CHANGE[S]?:?\s*/i at the start of
\* s, 0 when it does not match there
breakingPrefixLen(s) ==
    IF /\ Len(s) >= 15
       /\ toUpperCase(Slice(s, 1, 8)) = <<"B", "R", "E", "A", "K", "I", "N", "G">>
       /\ s[9] \in WhiteSpace \cup {"-"}
       /\ toUpperCase(Slice(s, 10, 15)) = <<"C", "H", "A", "N", "G", "E">>
    THEN 15 + PrefixLen(Slice(s, 16, Len(s)), {"S", "s"} \cap {s[i] : i \in 16..Min({16, Len(s)})})
    ELSE 0

colonAndSpaces(s) ==
    IF s # <<>> /\ s[1] = ":" THEN 1 + PrefixLen(Tail(s), WhiteSpace)
    ELSE PrefixLen(s, WhiteSpace)

\* line.replace(/BREAKING[\s-]CHANGE[S]?:?\s*/i, "").trim()
detailOf(line) ==
    IF \E i \in 1..Len(line) : breakingPrefixLen(Slice(line, i, Len(line))) > 0
    THEN trim(Slice(line, 1,
                    Min({i \in 1..Len(line) :
                           breakingPrefixLen(Slice(line, i, Len(line))) > 0}) - 1)
              \o from(Slice(line,
                     Min({i \in 1..Len(line) :
                            breakingPrefixLen(Slice(line, i, Len(line))) > 0})
                     + breakingPrefixLen(Slice(line,
                          Min({i \in 1..Len(line) :
                                 breakingPrefixLen(Slice(line, i, Len(line))) > 0}),
                          Len(line))), Len(line)),
                  colonAndSpaces(Slice(line,
                     Min({i \in 1..Len(line) :
                            breakingPrefixLen(Slice(line, i, Len(line))) > 0})
                     + breakingPrefixLen(Slice(line,
                          Min({i \in 1..Len(line) :
                                 breakingPrefixLen(Slice(line, i, Len(line))) > 0}),
                          Len(line))), Len(line))) + 1))
    ELSE trim(line)

\* the first non-blank line of the body that mentions a keyword
breakingDetails(body, keywords) ==
    SelectSeq(split(body, "\n"),
              LAMBDA line : trim(line) # <<>> /\ mentionsAny(line, keywords))

detailsPrefix == <<"D", "e", "t", "a", "i", "l", "s", ":", " ">>

\* if (parsed.breaking) { bump = "major"; push the description and the details }
libBreaking(acc, parsed, keywords) ==
    IF ~parsed.breaking THEN acc
    ELSE [acc EXCEPT
            !.bump = "major",
            !.changes =
                IF /\ parsed.body # <<>>
                   /\ breakingDetails(parsed.body, keywords) # <<>>
                   /\ detailOf(breakingDetails(parsed.body, keywords)[1]) # <<>>
                THEN pushChange(pushChange(@, BreakingChanges, parsed.description),
                                BreakingChanges,
                                detailsPrefix
                                \o detailOf(breakingDetails(parsed.body, keywords)[1]))
                ELSE pushChange(@, BreakingChanges, parsed.description)]

\* if (!bump || (bump === "patch" && config.bump === "minor")) bump = config.bump;
\* "" stands for null and undefined
libUpdateBump(bump, rule) ==
    IF bump = "" \/ (bump = "patch" /\ rule.bump = "minor")
    THEN (IF rule.bump = "undefined" THEN "" ELSE rule.bump)
    ELSE bump

\* a bug-free variant for comparison: the higher of the two levels
libMaxBump(bump, rule) ==
    IF rule.bump = "undefined" THEN bump
    ELSE IF "major" \in {bump, rule.bump} THEN "major"
    ELSE IF "minor" \in {bump, rule.bump} THEN "minor"
    ELSE "patch"

\* if (config) { ... }
libRegular(acc, parsed, config) ==
    IF ~IsSome(typeConfigOf(config, parsed.type)) THEN acc
    ELSE IF /\ parsed.type \in ObjectPrototypeKeys
            /\ ~\E h \in config.hiddenScopes : h.type = parsed.type
            /\ IsSome(parsed.scope) /\ Get(parsed.scope) # <<>>
    THEN [acc EXCEPT !.bump = libUpdateBump(@, Get(typeConfigOf(config, parsed.type))),
                     !.error = "hiddenScopes.includes is not a function"]
    ELSE IF /\ ~isHidden(parsed, Get(typeConfigOf(config, parsed.type)),
                         hiddenScopesOf(config, parsed.type))
            /\ IsSome(Get(typeConfigOf(config, parsed.type)).section)
            /\ Get(Get(typeConfigOf(config, parsed.type)).section) # <<>>
    THEN [acc EXCEPT !.bump = libUpdateBump(@, Get(typeConfigOf(config, parsed.type))),
                     !.changes = pushChange(@,
                                    Get(Get(typeConfigOf(config, parsed.type)).section),
                                    parsed.description)]
    ELSE [acc EXCEPT !.bump = libUpdateBump(@, Get(typeConfigOf(config, parsed.type))),
                     !.hasHiddenChanges = TRUE]

\* one iteration of the loop of analyzeCommits
libAnalyzeCommit(acc, commit, config) ==
    IF isReleaseCommit(commit) THEN acc
    ELSE IF ~IsSome(libParseCommit(commit, config.breakingKeywords)) THEN acc
    ELSE libRegular(libBreaking(acc, Get(libParseCommit(commit, config.breakingKeywords)),
                                config.breakingKeywords),
                    Get(libParseCommit(commit, config.breakingKeywords)), config)

RECURSIVE libLoop(_, _, _)
libLoop(acc, commits, config) ==
    IF commits = <<>> \/ acc.error # "" THEN acc
    ELSE libLoop(libAnalyzeCommit(acc, Head(commits), config), Tail(commits), config)

\* analyzeCommits(commits) of release-lib.ts with config installed as CONFIG
libAnalyzeCommits(commits, config) ==
    [done |-> TRUE,
     error |-> libLoop([bump |-> "", changes |-> <<>>, hasHiddenChanges |-> FALSE,
                        error |-> ""], commits, config).error,
     bump |-> IF libLoop([bump |-> "", changes |-> <<>>, hasHiddenChanges |-> FALSE,
                          error |-> ""], commits, config).bump = ""
              THEN "patch"
              ELSE libLoop([bump |-> "", changes |-> <<>>, hasHiddenChanges |-> FALSE,
                            error |-> ""], commits, config).bump,
     changes |-> libLoop([bump |-> "", changes |-> <<>>, hasHiddenChanges |-> FALSE,
                          error |-> ""], commits, config).changes,
     hasOnlyHiddenChanges |->
        /\ libLoop([bump |-> "", changes |-> <<>>, hasHiddenChanges |-> FALSE,
                    error |-> ""], commits, config).changes = <<>>
        /\ libLoop([bump |-> "", changes |-> <<>>, hasHiddenChanges |-> FALSE,
                    error |-> ""], commits, config).hasHiddenChanges,
     commitMeta |-> <<>>]

\* commit messages handed to analyzeCommits
LibMessages ==
    { mFeat, mFix, mFeatBang, mBumpHidden, mBreakingType, mFixBody, mDeps, mNoGrammar }

LibCommitLists(max) ==
    UNION { [1..n -> LibMessages] : n \in 0..max }

\* rule tables installed in CONFIG
LibConfigs == { CONFIG, CustomConfig, HiddenMajorConfig }

LibInit ==
    /\ commitsIn \in LibCommitLists(MaxCommits)
    /\ cfgIn \in [config : LibConfigs, breakingKeywords : {CONFIG.breakingKeywords}]
    /\ aOut = NoAnalysis

\* a call analyzeCommits(commitsIn) with cfgIn.config installed
LibAnalyzeCommitsCall ==
    /\ ~aOut.done
    /\ aOut' = libAnalyzeCommits(commitsIn, cfgIn.config)
    /\ UNCHANGED <<commitsIn, cfgIn, versionVars, releaseVars, textVars>>

-----------------------------------------------------------------------------
(* Specifications *)

InitVersion == VersionInit /\ AnalyzeIdle /\ ReleaseIdle /\ TextIdle
SpecVersion == InitVersion /\ [][VersionNext]_vars

InitAnalyze == AnalyzeInit /\ VersionIdle /\ ReleaseIdle /\ TextIdle
SpecAnalyze == InitAnalyze /\ [][AnalyzeCommitsCall]_vars

InitRelease == ReleaseInit /\ VersionIdle /\ AnalyzeIdle /\ TextIdle
SpecRelease == InitRelease /\ [][ReleaseNext]_vars

InitLib == LibInit /\ VersionIdle /\ ReleaseIdle /\ TextIdle
SpecLib == InitLib /\ [][LibAnalyzeCommitsCall]_vars

InitChangelog == ChangelogInit /\ VersionIdle /\ AnalyzeIdle
SpecChangelog == InitChangelog /\ [][GenerateChangelogCall]_vars

InitSteps == StepsInit /\ VersionIdle /\ AnalyzeIdle /\ TextIdle
SpecSteps == InitSteps /\ [][StepsNext]_vars

InitParse == ParseInit /\ VersionIdle /\ AnalyzeIdle /\ ReleaseIdle
SpecParse == InitParse /\ [][ParseCommitCall]_vars

InitFormat == FormatInit /\ VersionIdle /\ AnalyzeIdle /\ ReleaseIdle
SpecFormat == InitFormat /\ [][FormatNext]_vars

-----------------------------------------------------------------------------
(* Shapes of version strings used by the properties *)

\* exactly three components, each a non-empty run of decimal digits
IsXYZ(s) ==
    LET parts == split(s, ".")
    IN  Len(parts) = 3 /\ \A i \in 1..3 : IsDigits(parts[i])

\* the numeric core of an X.Y.Z string, printed canonically
CoreOf(s) ==
    LET parts == split(s, ".")
    IN  Core(RadixVal(parts[1], 10), RadixVal(parts[2], 10), RadixVal(parts[3], 10))

\* the core X.Y.Z with one component incremented and those to its right zeroed
Bumped(s, bump) ==
    LET parts == split(s, ".")
        x == RadixVal(parts[1], 10)
        y == RadixVal(parts[2], 10)
        z == RadixVal(parts[3], 10)
    IN  CASE bump = "major" -> Core(x + 1, 0, 0)
          [] bump = "minor" -> Core(x, y + 1, 0)
          [] OTHER -> Core(x, y, z + 1)

\* s is X.Y.Z-<t>.<N>: an X.Y.Z core, a dash, the tag t, a dot and a counter
IsPrereleaseOf(s, t) ==
    /\ Positions(s, "-") # {}
    /\ LET i == Min(Positions(s, "-"))
           rest == Slice(s, i + 1, Len(s))
       IN  /\ IsXYZ(Slice(s, 1, i - 1))
           /\ StartsWith(rest, t \o <<".">>)
           /\ IsDigits(Slice(rest, Len(t) + 2, Len(rest)))

PreCore(s) == Slice(s, 1, Min(Positions(s, "-")) - 1)
PreCounter(s, t) ==
    LET rest == Slice(s, Min(Positions(s, "-")) + 1, Len(s))
    IN  RadixVal(Slice(rest, Len(t) + 2, Len(rest)), 10)

\* s carries a prerelease suffix: an X.Y.Z core followed by a dash and more
HasPrereleaseSuffix(s) ==
    /\ Positions(s, "-") # {}
    /\ IsXYZ(Slice(s, 1, Min(Positions(s, "-")) - 1))

-----------------------------------------------------------------------------
(* C3: bumpVersion called with a prerelease tag t on a current version      *)
(* X.Y.Z-t.N of the same tag returns X.Y.Z-t.(N+1), the core unchanged, for *)
(* every bump level (and so X.Y.Z-t.(N+2) when applied to that result).     *)
C3_PrereleaseIncrement ==
    \A t \in Tags :
        (out.called /\ out.prerelease = Some(t) /\ IsPrereleaseOf(out.current, t))
            => /\ out.result.ok
               /\ out.result.value =
                    Pre(CoreOf(PreCore(out.current)), t, PreCounter(out.current, t) + 1)

(* C4: for a current version X.Y.Z of three non-negative integers and no    *)
(* suffix, the result is (X+1).0.0 for major, X.(Y+1).0 for minor and       *)
(* X.Y.(Z+1) for patch; with a null tag that is the whole result, with a    *)
(* tag t it is that core followed by -t.0.                                  *)
C4_BumpCore ==
    (out.called /\ IsXYZ(out.current))
        => /\ out.result.ok
           /\ out.prerelease = None
                => out.result.value = Bumped(out.current, out.bump)
           /\ \A t \in Tags :
                out.prerelease = Some(t)
                    => out.result.value =
                         Bumped(out.current, out.bump) \o <<"-">> \o t \o <<".", "0">>

\* a minor bump of 1.9.9 with the tag beta has returned 1.10.0-beta.0
C4_Witness ==
    /\ out.called
    /\ out.current = Core(1, 9, 9)
    /\ out.bump = "minor"
    /\ out.prerelease = Some(beta)
    /\ out.result.ok
    /\ out.result.value = Core(1, 10, 0) \o <<"-">> \o beta \o <<".", "0">>

(* C5: bumpVersion fails with the 'Invalid version format' error for every  *)
(* current string without a prerelease suffix that is not exactly three     *)
(* non-negative decimal integers separated by dots; it never coerces such a *)
(* string into a version.                                                   *)
C5_InvalidRejected ==
    (out.called /\ ~IsXYZ(out.current) /\ ~HasPrereleaseSuffix(out.current))
        => (~out.result.ok /\ out.result.error = "Invalid version format")

-----------------------------------------------------------------------------
(* Shapes of commit messages used by the properties *)

\* the subject line: the text before the first newline
subjectOf(message) ==
    IF Positions(message, "\n") = {} THEN message
    ELSE Slice(message, 1, Min(Positions(message, "\n")) - 1)

\* the subject carries a '!' immediately before its first colon
hasBang(message) ==
    LET subj == subjectOf(message)
        c == IF Positions(subj, ":") = {} THEN 0 ELSE Min(Positions(subj, ":"))
    IN  c >= 2 /\ subj[c - 1] = "!"

Severity(b) == CASE b = "major" -> 3 [] b = "minor" -> 2 [] OTHER -> 1

\* the bump levels of the rules matched by the commits' parsed types
matchedBumps(commits, config) ==
    { Get(typeConfigOf(config, parseCommit(commits[i].message, commits[i].hash).type)).bump :
        i \in { k \in 1..Len(commits) :
                  IsSome(typeConfigOf(config,
                            parseCommit(commits[k].message, commits[k].hash).type)) } }

\* the most severe of a set of bump levels, patch when the set is empty
maxBump(S) ==
    IF S = {} THEN "patch"
    ELSE CHOOSE b \in S : \A c \in S : Severity(b) >= Severity(c)

(* C1: when no commit of the list is breaking, the bump analyzeCommits      *)
(* returns is the most severe bump (major > minor > patch) declared by the  *)
(* rules the commits' types match, and patch when no commit matches a rule. *)
C1_BumpIsMaxSeverity ==
    (/\ aOut.done
     /\ \A i \in 1..Len(commitsIn) :
            /\ ~isBreaking(commitsIn[i].message, CONFIG.breakingKeywords)
            /\ ~hasBang(commitsIn[i].message))
        => aOut.bump = maxBump(matchedBumps(commitsIn, cfgIn.config))

(* C2: with the default CONFIG and CONFIG.breakingKeywords, a list holding  *)
(* a commit whose subject carries '!' immediately before the colon (such as *)
(* 'feat!: drop z') makes analyzeCommits return the bump major.             *)
C2_BangIsMajor ==
    (/\ aOut.done
     /\ cfgIn = [config |-> CONFIG, breakingKeywords |-> CONFIG.breakingKeywords]
     /\ \E i \in 1..Len(commitsIn) : hasBang(commitsIn[i].message))
        => aOut.bump = "major"

-----------------------------------------------------------------------------
(* Properties of the release *)

\* the operations performed so far in the current call
Ops(w) == {w.log[i] : i \in 1..Len(w.log)}

\* operations that write a file, change the repository, publish or POST
MutatingOps ==
    {"fs.write package.json", "fs.write CHANGELOG.md", "fs.write ~/.npmrc",
     "exec npm install --package-lock-only", "exec npm install --no-save",
     "exec git add", "exec git commit", "exec git tag", "exec git push",
     "exec npm publish", "fetch POST api.github.com/repos/releases"}

(* C6: release() with dryRun = true changes nothing: package.json,          *)
(* package-lock.json, CHANGELOG.md and ~/.npmrc are not written, no git     *)
(* add/commit/tag/push, no npm publish and no GitHub POST is executed, for  *)
(* every combination of the skip flags and every analysis outcome.          *)
C6_DryRunChangesNothing ==
    opts.dryRun =>
        (Fresh(world) = Fresh(world0) /\ Ops(world) \cap MutatingOps = {})

C6_Witness ==
    /\ opts.dryRun /\ ~opts.skipNpm /\ ~opts.skipGithub /\ ~opts.skipChangelog
    /\ pc = "done"
    /\ Analysis.hasChanges
    /\ "exec npm pack --dry-run" \in Ops(world)
    /\ "fetch GET api.github.com/user" \in Ops(world)

(* C7: release() with skipNpm = true never executes `npm publish`, whether  *)
(* dryRun is true or false.                                                 *)
C7_SkipNpmNeverPublishes ==
    opts.skipNpm =>
        ("exec npm publish" \notin Ops(world) /\ world.published = world0.published)

onlyReleaseCommits(history) ==
    \A i \in 1..Len(history) : isReleaseSubject(history[i].subject)

\* the branch is not allowed, or there is no commit, or only release commits
nothingToRelease(e, w) == ~isBranchAllowed(e.branch) \/ onlyReleaseCommits(w.history)

analysisErrorShape(a) == a.error # "" => (~a.hasChanges /\ a.changes = <<>>)

analysisCases(r, e, w) ==
    /\ r.fail # "none" => r.analysis.error # ""
    /\ (r.fail = "none" /\ nothingToRelease(e, w))
          => (/\ r.analysis.error # ""
              /\ r.analysis.version = w.pkgVersion
              /\ r.analysis.currentVersion = w.pkgVersion)
    /\ (r.fail = "none" /\ ~nothingToRelease(e, w) /\ w.pkgVersion = v12)
          => r.analysis.error = "Invalid version format"

(* C9: analyzeCommitsForRelease never throws.  When the branch is not       *)
(* allowed, when there is no commit since the last tag, when every commit   *)
(* is a release commit, or when a collaborator throws (bumpVersion on an    *)
(* invalid version included) it returns a result with error set,            *)
(* hasChanges = false and changes empty; in the first three cases version   *)
(* and currentVersion are the version of package.json.  (Stated where       *)
(* release() has just received the result: it goes on to bump or fails.)    *)
C9_AnalysisNeverThrows ==
    (ar # None /\ pc \in {"bump", "failed"}) =>
        (/\ ~Get(ar).threw
         /\ analysisErrorShape(Analysis)
         /\ analysisCases(Get(ar), envIn, world0))

C9_Witness ==
    /\ ar # None
    /\ Get(ar).fail = "none"
    /\ world0.pkgVersion = v12
    /\ Analysis.error = "Invalid version format"
    /\ Analysis.version = zeroVersion
    /\ pc = "failed"

\* every version string yields a commit message isReleaseCommit accepts
releaseMessagesRecognised == \A v \in VersionInputs : isReleaseCommit(releaseMessage(v))

\* subject has the shape `chore(release): <version> [skip ci]`
isReleaseMessage(subject) ==
    /\ StartsWith(subject, releasePrefix)
    /\ EndsWith(subject, releaseSuffix)
    /\ Len(subject) >= Len(releasePrefix) + Len(releaseSuffix)

onlyReleaseMessages(history) ==
    /\ history # <<>>
    /\ \A i \in 1..Len(history) : isReleaseMessage(history[i].subject)

(* C10: for every version v the message `chore(release): v [skip ci]`       *)
(* satisfies isReleaseCommit, and so does every commit commitChanges made;  *)
(* when every commit since the last tag is such a commit,                   *)
(* analyzeCommitsForRelease returns an error result whose version is the    *)
(* current version.                                                         *)
C10_ReleaseCommitsSkipped ==
    /\ releaseMessagesRecognised
    /\ \A i \in 1..Len(world.commits) : isReleaseCommit(world.commits[i])
    /\ (/\ ar # None
        /\ pc \in {"bump", "failed"}
        /\ Get(ar).fail = "none"
        /\ isBranchAllowed(envIn.branch)
        /\ onlyReleaseMessages(world0.history))
          => (/\ Analysis.error # ""
              /\ Analysis.version = world0.pkgVersion
              /\ Analysis.currentVersion = world0.pkgVersion)

C10_Witness ==
    /\ ar # None
    /\ Get(ar).fail = "none"
    /\ isBranchAllowed(envIn.branch)
    /\ onlyReleaseMessages(world0.history)
    /\ Analysis.error = "No non-release commits found since last tag"
    /\ Analysis.version = v123

-----------------------------------------------------------------------------
(* Properties of the commit classifier *)

\* the i-th commit of the analysed list, parsed
parsedAt(i) == parseCommit(commitsIn[i].message, commitsIn[i].hash)

\* the i-th commit's type has a rule in config.types
hasRuleAt(i) == \E r \in cfgIn.config.types : r.type = parsedAt(i).type

ruleAt(i) == CHOOSE r \in cfgIn.config.types : r.type = parsedAt(i).type

\* the i-th commit matched a rule and is hidden by the rule or by its scope
hiddenAt(i) ==
    /\ hasRuleAt(i)
    /\ \/ ruleAt(i).hidden
       \/ /\ IsSome(parsedAt(i).scope)
          /\ \E h \in cfgIn.config.hiddenScopes :
                h.type = parsedAt(i).type /\ Get(parsedAt(i).scope) \in h.scopes

\* the i-th commit is detected as breaking
breakingAt(i) ==
    \E k \in 1..Len(cfgIn.breakingKeywords) :
        Includes(commitsIn[i].message, cfgIn.breakingKeywords[k])

\* the description the i-th commit is listed with
descriptionAt(i) ==
    IF IsSome(parsedAt(i).scope)
    THEN parsedAt(i).description \o <<" ", "(">> \o Get(parsedAt(i).scope) \o <<")">>
    ELSE parsedAt(i).description

\* the items of a section of the returned changes (none when it is missing)
itemsOf(changes, section) ==
    UNION { {changes[k].items[j] : j \in 1..Len(changes[k].items)} :
              k \in {x \in 1..Len(changes) : changes[x].key = section} }

allItems(changes) ==
    UNION { {changes[k].items[j] : j \in 1..Len(changes[k].items)} :
              k \in 1..Len(changes) }

\* the call returned (it did not end in an exception)
analysisReturned == aOut.done /\ aOut.error = ""

(* C11: hasOnlyHiddenChanges of the result of analyzeCommits is true        *)
(* exactly when changes is empty and at least one commit matched a rule but *)
(* was hidden; it is false for the empty list and for lists of commits of   *)
(* unknown type only.                                                       *)
C11_OnlyHiddenIffHiddenSeen ==
    analysisReturned =>
        (aOut.hasOnlyHiddenChanges
            <=> (aOut.changes = <<>> /\ \E i \in 1..Len(commitsIn) : hiddenAt(i)))

(* C12: no section of changes and no key of commitMeta holds the            *)
(* description of a commit hidden by its rule or by its scope, and the      *)
(* returned bump is at least the bump such a commit's rule declares.        *)
C12_HiddenUnlistedButBumps ==
    analysisReturned =>
        \A i \in 1..Len(commitsIn) :
            hiddenAt(i) =>
                /\ descriptionAt(i) \notin allItems(aOut.changes)
                /\ ~HasKey(aOut.commitMeta, descriptionAt(i))
                /\ Severity(aOut.bump) >= Severity(ruleAt(i).bump)

\* the part of C12 about the listing alone
hiddenUnlisted ==
    analysisReturned =>
        \A i \in 1..Len(commitsIn) :
            hiddenAt(i) =>
                /\ descriptionAt(i) \notin allItems(aOut.changes)
                /\ ~HasKey(aOut.commitMeta, descriptionAt(i))

(* C13: every commit detected as breaking has its description under         *)
(* 'Breaking Changes', whatever its type (no rule, hidden rule), so a major *)
(* bump caused by a breaking commit comes with a non-empty 'Breaking        *)
(* Changes' section.                                                        *)
C13_BreakingAlwaysListed ==
    analysisReturned =>
        /\ \A i \in 1..Len(commitsIn) :
              breakingAt(i) => descriptionAt(i) \in itemsOf(aOut.changes, BreakingChanges)
        /\ (aOut.bump = "major" /\ \E i \in 1..Len(commitsIn) : breakingAt(i))
              => itemsOf(aOut.changes, BreakingChanges) # {}

(* C14: a breaking commit whose type matches a visible rule with a section  *)
(* is listed both under 'Breaking Changes' and under the rule's section.    *)
C14_BreakingListedTwice ==
    analysisReturned =>
        \A i \in 1..Len(commitsIn) :
            (/\ breakingAt(i) /\ hasRuleAt(i) /\ ~hiddenAt(i)
             /\ IsSome(ruleAt(i).section))
                => /\ descriptionAt(i) \in itemsOf(aOut.changes, BreakingChanges)
                   /\ descriptionAt(i) \in itemsOf(aOut.changes, Get(ruleAt(i).section))

\* the i-th commit is not breaking and its type has no rule
ignoredAt(i) == ~breakingAt(i) /\ ~hasRuleAt(i)

\* the list without its non-breaking commits of types that have no rule
withoutIgnored ==
    SelectSeq([i \in 1..Len(commitsIn) |-> [c |-> commitsIn[i], drop |-> ignoredAt(i)]],
              LAMBDA x : ~x.drop)

(* C15: a non-breaking commit whose type has no rule changes nothing: the   *)
(* call returns what it returns for the list without these commits, and for *)
(* a list of such commits only it returns bump patch and empty changes.     *)
C15_NoRuleChangesNothing ==
    aOut.done =>
        /\ aOut.error = ""
        /\ aOut = [done |-> TRUE]
                    @@ analyzeCommits([k \in 1..Len(withoutIgnored) |-> withoutIgnored[k].c],
                                      cfgIn.config, cfgIn.breakingKeywords)
        /\ (\A i \in 1..Len(commitsIn) : ignoredAt(i))
              => (aOut.bump = "patch" /\ aOut.changes = <<>>)

\* the text after the subject line
bodyText(message) == Slice(message, Len(subjectOf(message)) + 1, Len(message))

\* a keyword occurs in the text in some letter case
mentionsKeyword(text, breakingKeywords) ==
    \E k \in 1..Len(breakingKeywords) :
        Includes(lowerCase(text), lowerCase(breakingKeywords[k]))

(* C16: a commit whose body holds a configured keyword in any letter case   *)
(* makes the bump major, and a keyword in the subject line alone does not:  *)
(* with rules that declare no major bump, the bump is major only if some    *)
(* commit's body holds a keyword.                                           *)
C16_KeywordInBodyAnyCase ==
    analysisReturned =>
        /\ (\E i \in 1..Len(commitsIn) :
                mentionsKeyword(bodyText(commitsIn[i].message), cfgIn.breakingKeywords))
              => aOut.bump = "major"
        /\ (aOut.bump = "major" /\ cfgIn.config = CONFIG)
              => \E i \in 1..Len(commitsIn) :
                    mentionsKeyword(bodyText(commitsIn[i].message), cfgIn.breakingKeywords)

-----------------------------------------------------------------------------
(* Properties of parseCommit and of the formatting functions *)

(* C17: for a subject followed by a blank line and a non-empty body,        *)
(* parseCommit returns the type, scope, description and prNumber it returns *)
(* for the subject alone, and a prNumber it returns is the number of a      *)
(* '(#digits)' that ends the subject.                                       *)
C17_BodyKeepsSubjectFields ==
    (textOut.done /\ textIn.body # <<>>) =>
        /\ textOut.full.type = textOut.subjectOnly.type
        /\ textOut.full.scope = textOut.subjectOnly.scope
        /\ textOut.full.description = textOut.subjectOnly.description
        /\ textOut.full.prNumber = textOut.subjectOnly.prNumber
        /\ IsSome(textOut.full.prNumber)
              => EndsWith(textIn.subject,
                          <<"(", "#">> \o Get(textOut.full.prNumber) \o <<")">>)

\* the lines of a rendered text that start with the prefix
linesWith(text, prefix) ==
    SelectSeq(split(text, "\n"), LAMBDA l : StartsWith(l, prefix))

headerPrefix == <<"#", "#", "#", " ">>
itemPrefix == <<"-", " ">>

\* the section headers expected for the sections in first-seen order
headersInFirstSeenOrder ==
    [k \in 1..Len(textIn.changes) |->
        headerPrefix \o getSectionDisplayName(textIn.changes[k].key,
                                              sectionsOf(textIn.markdownConfig))]

\* the descriptions of the commits listed under a section, in commit order
RECURSIVE listedUnder(_, _, _)
listedUnder(commits, config, section) ==
    IF commits = <<>> THEN <<>>
    ELSE (IF /\ \E r \in config.types :
                   r.type = parseCommit(Head(commits).message, Head(commits).hash).type
             /\ section =
                  sectionOf(parseCommit(Head(commits).message, Head(commits).hash),
                            isBreaking(Head(commits).message, config.breakingKeywords),
                            Get(typeConfigOf(config,
                                  parseCommit(Head(commits).message,
                                              Head(commits).hash).type)))
          THEN <<parseCommit(Head(commits).message, Head(commits).hash).description>>
          ELSE <<>>)
         \o listedUnder(Tail(commits), config, section)

\* all items in first-seen order of the sections, commit order inside each
RECURSIVE itemsInOrder(_)
itemsInOrder(changes) ==
    IF changes = <<>> THEN <<>>
    ELSE listedUnder(textIn.commits, textIn.config, Head(changes).key)
         \o itemsInOrder(Tail(changes))

\* the rendered item lines begin with the items in the given order (an item
\* that holds a dollar sign passes through the replacement patterns and is
\* not compared: its text is the subject of C19)
beginWithItems(lines, items) ==
    /\ Len(lines) = Len(items)
    /\ \A k \in 1..Len(lines) :
          \/ StartsWith(lines[k], itemPrefix \o items[k])
          \/ Includes(items[k], <<"$">>)

\* sections and items of a rendered text are in first-seen and commit order
inFirstSeenOrder(text) ==
    /\ linesWith(text, headerPrefix) = headersInFirstSeenOrder
    /\ beginWithItems(linesWith(text, itemPrefix), itemsInOrder(textIn.changes))

(* C18: the sections formatChangelogEntry and formatReleaseNotes write for  *)
(* the changes returned by analyzeCommits are in first-seen order, whatever *)
(* the section names, and the items of a section are in commit order.       *)
C18_SectionsInFirstSeenOrder ==
    /\ IsSome(textOut.changelog) => inFirstSeenOrder(Get(textOut.changelog))
    /\ IsSome(textOut.notes) => inFirstSeenOrder(Get(textOut.notes))

\* the items in the order they are rendered
RECURSIVE flatItems(_)
flatItems(es) ==
    IF es = <<>> THEN <<>> ELSE Head(es).items \o flatItems(Tail(es))

repoUrl == <<"h", "t", "t", "p", "s", ":", "/", "/", "g", "i", "t", "h", "u", "b", ".", "c", "o", "m", "/", "o", "w", "n", "e", "r", "/", "r", "e", "p", "o">>

\* the link the item is to carry, with the text that joins it to the item:
\* none without repoInfo, without an entry or with an entry without fields,
\* the pull-request link for an entry with a prNumber, else the commit link
expectedLink(item) ==
    IF \/ ~IsSome(textIn.repoInfo)
       \/ ~IsSome(metaOf(textIn.commitMeta, item))
    THEN <<>>
    ELSE IF IsSome(Get(metaOf(textIn.commitMeta, item)).prNumber)
    THEN <<" ", "(", "[", "#">> \o Get(Get(metaOf(textIn.commitMeta, item)).prNumber) \o <<"]", "(">>
         \o repoUrl \o <<"/", "p", "u", "l", "l", "/">> \o Get(Get(metaOf(textIn.commitMeta, item)).prNumber)
         \o <<")", ")">>
    ELSE IF Get(metaOf(textIn.commitMeta, item)).hash # <<>>
    THEN <<" ", "(", "[">> \o SubSeq(Get(metaOf(textIn.commitMeta, item)).hash, 1, 7) \o <<"]", "(">>
         \o repoUrl \o <<"/", "c", "o", "m", "m", "i", "t", "/">> \o Get(metaOf(textIn.commitMeta, item)).hash
         \o <<")", ")">>
    ELSE <<>>

\* every item line is the item followed by its expected link and nothing else
itemsLinkedAsExpected(text) ==
    /\ Len(linesWith(text, itemPrefix)) = Len(flatItems(entries(textIn.changes)))
    /\ \A k \in 1..Len(flatItems(entries(textIn.changes))) :
          linesWith(text, itemPrefix)[k]
            = itemPrefix \o flatItems(entries(textIn.changes))[k]
              \o expectedLink(flatItems(entries(textIn.changes))[k])

(* C19: every item rendered by formatChangelogEntry and formatReleaseNotes  *)
(* is followed by at most one link: the pull-request link when its          *)
(* commitMeta entry has a prNumber, else the commit link labelled with the  *)
(* first 7 characters of the hash when it has a hash; without an entry,     *)
(* without either field or without repoInfo the item is rendered unchanged. *)
C19_AtMostOneLink ==
    /\ IsSome(textOut.changelog) => itemsLinkedAsExpected(Get(textOut.changelog))
    /\ IsSome(textOut.notes) => itemsLinkedAsExpected(Get(textOut.notes))

-----------------------------------------------------------------------------
(* Properties of the release: one version everywhere *)

\* what the current run has written so far
wrotePackageJson == \E i \in 1..Len(world.log) : world.log[i] = "fs.write package.json"
wroteChangelog == \E i \in 1..Len(world.log) : world.log[i] = "fs.write CHANGELOG.md"
madeCommit == Len(world.commits) > Len(world0.commits)
madeTag == Len(world.tags) > Len(world0.tags)
madeRelease == Len(world.releases) > Len(world0.releases)

\* the version in the header of the topmost entry of a changelog text
topEntryVersion(changelog) ==
    Slice(linesWith(changelog, <<"#", "#", " ", "[">>)[1], 5,
          Min(Positions(linesWith(changelog, <<"#", "#", " ", "[">>)[1], "]")) - 1)

\* the text of a tag after its 'v'
minusV(tag) == IF StartsWith(tag, <<"v">>) THEN Tail(tag) ELSE tag

\* the version inside a release commit message
versionOfMessage(message) ==
    Slice(message, Len(<<"c", "h", "o", "r", "e", "(", "r", "e", "l", "e", "a", "s", "e", ")", ":", " ">>) + 1, Len(message) - Len(<<" ", "[", "s", "k", "i", "p", " ", "c", "i", "]">>))

(* C20: within one run of release() every step acts on the analysis        *)
(* computed at its start: the version written to package.json, the version  *)
(* of the new changelog entry, the version in the release commit message,   *)
(* the git tag minus 'v' and the GitHub release tag minus 'v' are all the   *)
(* version of that analysis, hence the same string.                         *)
C20_OneVersionEverywhere ==
    (IsSome(ar) /\ pc \in {"bump", "changelog", "commit", "tag", "publish", "github",
                           "push", "done", "failed"}) =>
        /\ wrotePackageJson => world.pkgVersion = Analysis.version
        /\ wroteChangelog => topEntryVersion(Get(world.changelog)) = Analysis.version
        /\ madeCommit =>
              /\ StartsWith(world.commits[Len(world.commits)], <<"c", "h", "o", "r", "e", "(", "r", "e", "l", "e", "a", "s", "e", ")", ":", " ">>)
              /\ EndsWith(world.commits[Len(world.commits)], <<" ", "[", "s", "k", "i", "p", " ", "c", "i", "]">>)
              /\ versionOfMessage(world.commits[Len(world.commits)]) = Analysis.version
        /\ madeTag => minusV(world.tags[Len(world.tags)]) = Analysis.version
        /\ madeRelease =>
              minusV(world.releases[Len(world.releases)].tag) = Analysis.version

\* a run that ended after writing all five
C20_Witness ==
    /\ pc = "done" /\ IsSome(ar)
    /\ wrotePackageJson /\ wroteChangelog /\ madeCommit /\ madeTag /\ madeRelease
    /\ Analysis.version # Analysis.currentVersion

-----------------------------------------------------------------------------
(* Properties of the links of rendered items *)

\* the parsed commits listed under a section, in commit order
RECURSIVE originsUnder(_, _, _)
originsUnder(commits, config, section) ==
    IF commits = <<>> THEN <<>>
    ELSE (IF /\ \E r \in config.types :
                   r.type = parseCommit(Head(commits).message, Head(commits).hash).type
             /\ section =
                  sectionOf(parseCommit(Head(commits).message, Head(commits).hash),
                            isBreaking(Head(commits).message, config.breakingKeywords),
                            Get(typeConfigOf(config,
                                  parseCommit(Head(commits).message,
                                              Head(commits).hash).type)))
          THEN <<parseCommit(Head(commits).message, Head(commits).hash)>>
          ELSE <<>>)
         \o originsUnder(Tail(commits), config, section)

\* the commits behind the rendered items, in the order the items are rendered
RECURSIVE originsInOrder(_)
originsInOrder(es) ==
    IF es = <<>> THEN <<>>
    ELSE originsUnder(textIn.commits, textIn.config, Head(es).key)
         \o originsInOrder(Tail(es))

\* the link to the commit's own pull request, else to the commit itself
ownLink(origin) ==
    IF IsSome(origin.prNumber)
    THEN <<" ", "(", "[", "#">> \o Get(origin.prNumber) \o <<"]", "(">> \o repoUrl \o <<"/", "p", "u", "l", "l", "/">>
         \o Get(origin.prNumber) \o <<")", ")">>
    ELSE <<" ", "(", "[">> \o SubSeq(origin.hash, 1, 7) \o <<"]", "(">> \o repoUrl \o <<"/", "c", "o", "m", "m", "i", "t", "/">>
         \o origin.hash \o <<")", ")">>

\* the call was given repoInfo and the commitMeta analyzeCommits returned
linkedCall ==
    /\ IsSome(textIn.repoInfo)
    /\ IsSome(textIn.commitMeta)
    /\ \A i \in 1..Len(Get(textIn.commitMeta)) : Get(textIn.commitMeta)[i].hash # <<>>

\* every item line carries the link of the commit that produced the item
\* (items that hold a dollar sign are left to C19)
itemsLinkToOrigin(text) ==
    /\ Len(linesWith(text, itemPrefix)) = Len(originsInOrder(entries(textIn.changes)))
    /\ \A k \in 1..Len(originsInOrder(entries(textIn.changes))) :
          \/ Includes(originsInOrder(entries(textIn.changes))[k].description, <<"$">>)
          \/ linesWith(text, itemPrefix)[k]
               = itemPrefix \o originsInOrder(entries(textIn.changes))[k].description
                 \o ownLink(originsInOrder(entries(textIn.changes))[k])

(* C21: commitMeta[item] belongs to the very commit that produced the item, *)
(* so every rendered item links to its own commit or pull request, also     *)
(* when several commits of the list have the same description.              *)
C21_ItemsLinkToOwnCommit ==
    linkedCall =>
        /\ IsSome(textOut.changelog) => itemsLinkToOrigin(Get(textOut.changelog))
        /\ IsSome(textOut.notes) => itemsLinkToOrigin(Get(textOut.notes))


-----------------------------------------------------------------------------
(* Properties of the repository the links point to                         *)

\* GITHUB_REPOSITORY names the repository and no remote 'origin' is readable
onlyRepositoryEnv == envIn.repoEnv = repoFullName /\ envIn.remote = None

\* the items of the analysis that have a commitMeta entry
itemsWithMeta(analysis) ==
    {flatItems(entries(analysis.changes))[k] :
        k \in {j \in 1..Len(flatItems(entries(analysis.changes))) :
                 IsSome(metaOf(Some(analysis.commitMeta),
                               flatItems(entries(analysis.changes))[j]))}}

\* every line of the text that renders one of the items carries a link into
\* the repository
itemsCarryLinks(text, items) ==
    \A item \in items :
        \A k \in 1..Len(linesWith(text, itemPrefix \o item)) :
            Includes(linesWith(text, itemPrefix \o item)[k], <<"]", "(">> \o repoUrl \o <<"/">>)

(* C22: the links of rendered items are built from the repository identity *)
(* resolved from the git remote or from GITHUB_REPOSITORY: when            *)
(* GITHUB_REPOSITORY is 'owner/repo' and no GitHub remote 'origin' can be   *)
(* read, the items with a commitMeta entry are still rendered with links   *)
(* in the changelog entry generateChangelog writes and in the body of the  *)
(* release createGithubRelease posts.                                      *)
C22_LinksFromRepositoryEnv ==
    (IsSome(ar) /\ onlyRepositoryEnv) =>
        /\ wroteChangelog =>
              itemsCarryLinks(Get(world.changelog), itemsWithMeta(Analysis))
        /\ madeRelease =>
              itemsCarryLinks(world.releases[Len(world.releases)].body,
                              itemsWithMeta(Analysis))

\* with a readable remote the same items do carry links
C22_RemoteGivesLinks ==
    (IsSome(ar) /\ IsSome(envIn.remote)) =>
        /\ wroteChangelog =>
              itemsCarryLinks(Get(world.changelog), itemsWithMeta(Analysis))
        /\ madeRelease =>
              itemsCarryLinks(world.releases[Len(world.releases)].body,
                              itemsWithMeta(Analysis))


-----------------------------------------------------------------------------
(* Properties of the configuration of an instance                          *)

\* the commits analyzeCommitsForRelease hands to analyzeCommits
analyzedCommits(w) ==
    SelectSeq(getCommitsWithHashesSinceLastTag(w.history),
              LAMBDA c : ~isReleaseCommit(c.message))

\* what analyzeCommits makes of them under a configuration
analysisUnder(w, config) ==
    analyzeCommits(analyzedCommits(w), config, config.breakingKeywords)

\* the instance's analyzeCommits() returned an analysis without error
instanceAnalyzed == pc = "analyzeCommits" /\ IsSome(ar) /\ Analysis.error = ""

(* C23: the configuration passed to the constructor is the one the         *)
(* instance's analyzeCommits() uses: the bump level and the changes it     *)
(* returns are those of the commits since the last tag under the           *)
(* instance's configuration, so that two instances with different type     *)
(* rules can return different bump levels and changes for the same         *)
(* repository state.                                                       *)
C23_ConstructorConfigUsed ==
    instanceAnalyzed =>
        /\ Analysis.bump = analysisUnder(world0, cfgIn.config).bump
        /\ Analysis.changes = analysisUnder(world0, cfgIn.config).changes

\* what the code does: whatever the instance's configuration, the analysis
\* is that of the global CONFIG
C23_GlobalConfigUsed ==
    instanceAnalyzed =>
        /\ Analysis.bump = analysisUnder(world0, CONFIG).bump
        /\ Analysis.changes = analysisUnder(world0, CONFIG).changes


-----------------------------------------------------------------------------
(* Properties of analyzeCommits of release-lib.ts                          *)

\* the orders the commits of a list can come in
ordersOf(s) ==
    { [i \in 1..Len(s) |-> s[p[i]]] :
        p \in {f \in [1..Len(s) -> 1..Len(s)] :
                 \A i, j \in 1..Len(s) : f[i] = f[j] => i = j} }

\* analyzeCommits(commitsIn) returned
libReturned == aOut.done /\ aOut.error = ""

(* C24: for every rule table installed in CONFIG.types, rules declaring    *)
(* bump major included, and every commit list, the bump analyzeCommits of  *)
(* release-lib.ts returns is the same for every permutation of the list.   *)
C24_BumpIgnoresOrder ==
    libReturned =>
        \A p \in ordersOf(commitsIn) :
            libAnalyzeCommits(p, cfgIn.config).error = ""
                => libAnalyzeCommits(p, cfgIn.config).bump = aOut.bump

\* with the rules of the shipped CONFIG, none of which declares major, the
\* order does not matter
C24_ShippedRulesIgnoreOrder ==
    (libReturned /\ cfgIn.config = CONFIG) =>
        \A p \in ordersOf(commitsIn) :
            libAnalyzeCommits(p, cfgIn.config).bump = aOut.bump


-----------------------------------------------------------------------------
(* Properties of the order of the steps of release()                       *)

StepOrder ==
    <<"analyze", "bump", "changelog", "commit", "tag", "publish", "github", "push",
      "done">>

rank(p) == CHOOSE i \in 1..Len(StepOrder) : StepOrder[i] = p

\* the ways the step release() is at can end; a skipped step ends at once
stepResults ==
    IF pc = "bump"
    THEN {bumpPackageVersion(world, Analysis, opts.dryRun, f) : f \in ReleaseBumpFaults}
    ELSE IF pc = "changelog"
    THEN (IF ~opts.skipChangelog /\ Analysis.hasChanges
          THEN {generateChangelog(world, envIn, Analysis, opts.dryRun, f) :
                  f \in ChangelogFaults}
          ELSE {Result(world, "")})
    ELSE IF pc = "commit"
    THEN {commitChanges(world, Analysis, opts.dryRun, f) : f \in CommitFaults}
    ELSE IF pc = "tag"
    THEN {createTag(world, Analysis, opts.dryRun, f) : f \in TagFaults}
    ELSE IF pc = "publish"
    THEN {publishNpm(world, envIn, Analysis, opts.dryRun, opts.skipNpm, f) :
            f \in PublishFaults}
    ELSE IF pc = "github"
    THEN (IF ~opts.skipGithub
          THEN {createGithubRelease(world, envIn, Analysis, opts.dryRun,
                                    opts.skipGithub, f) : f \in GithubFaults}
          ELSE {Result(world, "")})
    ELSE IF pc = "push"
    THEN (IF ~opts.dryRun
          THEN {pushChanges(world, opts.dryRun, f) : f \in PushFaults}
          ELSE {Result(world, "")})
    ELSE {}

\* the next step starts only when the one before it did not throw; a step
\* that throws ends the run, and release() rejects with its message
endsAsItShould ==
    /\ pc = "analyze" =>
          /\ (Get(ar').threw \/ hasError(Get(ar').analysis)) <=> pc' = "failed"
          /\ pc' = "failed" =>
                outcome' = releaseFailed(IF Get(ar').threw THEN Get(ar').msg
                                         ELSE Get(ar').analysis.error)
    /\ pc \in {"bump", "changelog", "commit", "tag", "publish", "github", "push"} =>
          \E r \in stepResults :
              /\ world' = r.w
              /\ r.error # "" <=> pc' = "failed"
              /\ r.error # "" => outcome' = releaseFailed(r.error)

\* the steps follow one another in the order of StepOrder
oneStepForward ==
    IF pc \in {"idle", "done", "failed"} THEN pc' = "analyze"
    ELSE pc' = "failed" \/ rank(pc') = rank(pc) + 1

\* what a step leaves behind is changed by that step only: nothing is undone
\* by a later step or by the failure of the run
ownEffectsOnly ==
    /\ world'.pkgVersion # world.pkgVersion => pc = "bump"
    /\ world'.changelog # world.changelog => pc = "changelog"
    /\ world'.commits # world.commits => pc = "commit"
    /\ world'.tags # world.tags => pc = "tag"
    /\ world'.published # world.published => pc = "publish"
    /\ world'.releases # world.releases => pc = "github"
    /\ world'.pushed # world.pushed => pc = "push" /\ pc' = "done"

(* C25: release() runs its steps strictly in the order analyze, bump,      *)
(* changelog, commit, tag, npm publish, GitHub release, push; a step       *)
(* starts only after the steps before it, unless skipped, have succeeded;  *)
(* when a step throws no later step executes and nothing is pushed, what   *)
(* the earlier steps did is neither retried nor rolled back, and release() *)
(* rejects with a message that starts with 'Release failed: '.             *)
C25_StepsInOrderUntilFailure ==
    [][/\ oneStepForward
       /\ endsAsItShould
       /\ ownEffectsOnly
       /\ pc' = "failed" =>
             /\ world'.pushed = world0'.pushed
             /\ outcome'.status = "rejected"
             /\ outcome'.msg[1] = "Release failed: "]_vars

\* a run that failed at the publish step: the commit and the tag stay, and
\* nothing is pushed
C25_Witness ==
    /\ pc = "failed"
    /\ madeCommit /\ madeTag
    /\ \E i \in 1..Len(world.log) : world.log[i] = "exec npm publish"
    /\ world.pushed = world0.pushed
    /\ outcome.msg[1] = "Release failed: "


-----------------------------------------------------------------------------
(* Properties of the token checks                                          *)

\* a real release that is to publish to npm and to GitHub, with a token unset
tokenMissing ==
    /\ ~opts.dryRun /\ ~opts.skipNpm /\ ~opts.skipGithub
    /\ pc \notin {"idle"}
    /\ (envIn.npmToken = "" \/ envIn.githubToken = "")

(* C26: in a non-dry-run release() with skipNpm and skipGithub false, a    *)
(* missing NPM_TOKEN or GITHUB_TOKEN is detected before any irreversible   *)
(* step: package.json is not written, no commit and no tag is made.        *)
C26_TokensCheckedFirst ==
    tokenMissing => (~wrotePackageJson /\ ~madeCommit /\ ~madeTag)

\* the missing token is detected, but only at the step that uses it: the run
\* never finishes and nothing is pushed
C26_TokensCheckedAtTheirStep ==
    tokenMissing =>
        /\ pc # "done"
        /\ world.pushed = world0.pushed
        /\ (envIn.npmToken = "" => world.published = world0.published)
        /\ (envIn.githubToken = "" => world.releases = world0.releases)


-----------------------------------------------------------------------------
(* Properties of the duplicate check of publishNpm                         *)

\* publishNpm ran npm view and the registry held the version to publish
viewReportedVersion ==
    /\ pc = "publishNpm" /\ ~opts.skipNpm /\ IsSome(ar)
    /\ "exec npm view" \in Ops(world)
    /\ versionExists(world0, Analysis.version)

(* C27: publishNpm with skipAuth false: when `npm view name@version        *)
(* version` reports that the version already exists, publishNpm rejects    *)
(* with '... already exists on NPM. Cannot publish duplicate version.' and *)
(* npm publish is not executed.                                            *)
C27_DuplicateVersionRejected ==
    viewReportedVersion =>
        /\ outcome = Rejected("Version already exists on NPM. Cannot publish duplicate version.")
        /\ "exec npm publish" \notin Ops(world)

\* what the code does instead: it warns and goes on; a dry run resolves, a
\* real run executes npm publish
C27_DuplicateVersionOnlyWarns ==
    viewReportedVersion =>
        /\ "console.warn" \in Ops(world)
        /\ (opts.dryRun => outcome = Resolved)
        /\ (~opts.dryRun => "exec npm publish" \in Ops(world))


-----------------------------------------------------------------------------
(* Properties of repeated releases                                          *)

\* the version bumpVersion returned was written to package.json and is the
\* current version of the next run
returnedIsCurrent == out.called /\ out.result.ok /\ ver = out.result.value

\* the prerelease tag of the branch, "" on the main branch
tagOfBranch == IF IsSome(tagIn) THEN Get(tagIn) ELSE <<>>

\* v is the first prerelease X.Y.Z-<tag>.0 of the branch
firstPrerelease(v) ==
    tagOfBranch # <<>> /\ EndsWith(v, <<"-">> \o tagOfBranch \o <<".", "0">>)

(* C28: repeated prereleases work: every version bumpVersion returns is    *)
(* accepted as the current version by the next call, and after             *)
(* X.Y.Z-<tag>.0 was written on a prerelease branch the next call on that  *)
(* branch returns X.Y.Z-<tag>.1.                                           *)
C28_RepeatedPrereleases ==
    returnedIsCurrent =>
        \A b \in BumpLevels :
            /\ bumpVersion(ver, b, tagIn).ok
            /\ firstPrerelease(ver) =>
                  bumpVersion(ver, b, tagIn).value
                    = Slice(ver, 1, Len(ver) - 1) \o <<"1">>

\* on the main branch every returned version is accepted by the next call
C28_RepeatedMainReleases ==
    (returnedIsCurrent /\ tagOfBranch = <<>>) =>
        \A b \in BumpLevels : bumpVersion(ver, b, tagIn).ok


-----------------------------------------------------------------------------
(* Properties of CHANGELOG.md over repeated calls                           *)

RECURSIVE Reverse(_)
Reverse(s) == IF s = <<>> THEN <<>> ELSE Reverse(Tail(s)) \o <<Head(s)>>

\* the lines of a file; a missing file has none
linesOfFile(f) == IF IsSome(f) THEN split(Get(f), "\n") ELSE <<>>

\* the versions of the entries of a file, top to bottom
entryVersion(line) == Slice(line, 5, Min(Positions(line, "]") \cup {Len(line) + 1}) - 1)

entryVersions(f) ==
    IF IsSome(f)
    THEN [i \in 1..Len(linesWith(Get(f), entryPrefix)) |->
            entryVersion(linesWith(Get(f), entryPrefix)[i])]
    ELSE <<>>

\* where the entries begin
firstEntryLine(lines) ==
    Min({i \in 1..Len(lines) : StartsWith(lines[i], entryPrefix)} \cup {Len(lines) + 1})

\* the lines of old are all in new, in their order, with lines inserted at
\* one place
keepsLines(old, new) ==
    /\ Len(new) >= Len(old)
    /\ \E k \in 0..Len(old) :
          /\ Slice(new, 1, k) = Slice(old, 1, k)
          /\ Slice(new, Len(new) - (Len(old) - k) + 1, Len(new))
               = Slice(old, k + 1, Len(old))

changelogCalled == pc = "generateChangelog" /\ runs >= 1

(* C29: starting from a missing CHANGELOG.md or one that begins with the   *)
(* standard header, after any sequence of non-dry-run generateChangelog    *)
(* calls with hasChanges true and the default templates, the version       *)
(* entries appear in the reverse order of the calls (newest first, above   *)
(* the entries the file had), the header lines stay above every entry, and *)
(* no line written before is removed or reordered.                         *)
C29_ChangelogNewestFirst ==
    changelogCalled =>
        /\ entryVersions(world.changelog) = Reverse(textOut) \o entryVersions(textIn)
        /\ Slice(linesOfFile(world.changelog), 1, 3)
             = <<split(standardHeader, "\n")[1], <<>>, allNotable>>
        /\ firstEntryLine(linesOfFile(world.changelog)) > 3
        /\ keepsLines(linesOfFile(IF IsSome(world0.changelog) THEN world0.changelog
                                  ELSE Some(standardHeader)),
                      linesOfFile(world.changelog))

\* three releases written to a file that did not exist, the newest on top
C29_Witness ==
    /\ changelogCalled
    /\ textIn = None
    /\ textOut = <<Core(1, 3, 0), Core(1, 3, 1), Core(2, 0, 0)>>
    /\ entryVersions(world.changelog) = <<Core(2, 0, 0), Core(1, 3, 1), Core(1, 3, 0)>>


-----------------------------------------------------------------------------
(* Properties of the prerelease flag                                        *)

\* the branch name with every slash turned into a dash
RECURSIVE dashed(_)
dashed(s) ==
    IF s = <<>> THEN <<>>
    ELSE <<IF Head(s) = "/" THEN "-" ELSE Head(s)>> \o dashed(Tail(s))

\* the analysis of a run on an allowed branch succeeded
analysedOnAllowedBranch ==
    IsSome(ar) /\ pc # "idle" /\ ~hasError(Analysis) /\ ~Get(ar).threw
    /\ isBranchAllowed(envIn.branch)

\* what the run has published, tagged and released so far
newPublished == Slice(world.published, Len(world0.published) + 1, Len(world.published))
newReleases == Slice(world.releases, Len(world0.releases) + 1, Len(world.releases))

====
